---------------------------- MODULE Spec2Model ----------------------------
(***************************************************************************)
(* Model of json.h (value model, recursive-descent parser, serializer),    *)
(* of the demonstration program main.c and of ali.h (arena, UTF-8, string  *)
(* view, dynamic array, log, temp allocator, string builder).              *)
(*                                                                         *)
(* Text is a sequence of one-character strings.  A pointer into the text   *)
(* is an offset from content_start, so content_start itself is offset 0.   *)
(* The bytes that lie behind the content in the caller's buffer are part   *)
(* of the memory the lexer can read (json_is_empty never stops it), so the *)
(* lexer carries the whole buffer `mem`; a read behind the buffer is a     *)
(* fault.                                                                  *)
(***************************************************************************)
EXTENDS Integers, Sequences, FiniteSets, TLC

VARIABLES
    \* ---- parser harness: json_lexer + json_lexer_parse_value
    p_pc,        \* "start" | "parsed" | "found" | "item"
    p_input,     \* [family, text, expect]: the content handed to json_lexer
    p_tail,      \* bytes behind the content in the caller's buffer
    p_result,    \* result of json_lexer_parse_value
    p_lookup,    \* lookups made on the parsed value: [key, found, index, item]
    p_arena0,    \* json_arena_size when the last call began
    p_ncalls,    \* calls of json_lexer_parse_value made so far
    \* ---- value model harness: append / get_item / find_value / stringify
    v_array,     \* JsonValue of type JSON_ARRAY built by json_array_append
    v_object,    \* JsonValue of type JSON_OBJECT built by json_object_append
    v_arena,     \* json_arena_size
    v_op,        \* last operation applied
    v_arg,       \* its argument (index or key)
    v_ret,       \* its result
    \* ---- demonstration program main.c
    m_pc,        \* position in main
    m_file,      \* products.json: [readable, text]
    m_fill,      \* the byte value malloc'ed memory happens to hold
    m_sb,        \* AliSb after sb_read_file: [data, count, capacity]
    m_value,     \* JsonValue value
    m_obj,       \* value_as_object
    m_products,  \* products_json / products
    m_i,         \* loop index
    m_stdout,    \* text written to standard output
    m_exit,      \* exit code, -1 while running
    m_why,       \* which return statement ended main
    \* ---- ali.h arena
    a_regions,   \* chain of regions from self->start: sequence of [count]
    a_end,       \* self->end as an index into the chain, 0 = NULL
    a_pc,        \* "idle" | "alloc" | "fault"
    a_size,      \* size of the allocation in progress
    a_region,    \* local `region` of ali_arena_alloc
    a_blocks,    \* blocks the caller holds: sequence of [r, off, size]
    a_nalloc,    \* number of allocations made so far
    a_mark,      \* the AliArenaMark the caller holds: [r, count], r = 0 is NULL
    a_premark,   \* a_blocks when the mark was taken
    a_last,      \* last operation completed on the arena
    \* ---- ali.h utf8
    u_pc,        \* "idle" | "encoded" | "decoded"
    u_utf8,      \* the static buffer utf8[5] of ali_codepoint_to_utf8
    u_cp,        \* the codepoint last given to ali_codepoint_to_utf8
    u_ptr,       \* what ali_codepoint_to_utf8 returned: "utf8" or "NULL"
    u_dec,       \* result of ali_utf8c_to_codepoint: [codepoint, codepoint_size]
    \* ---- ali.h string view
    s_mem,       \* the C string the view was made from, terminator included
    s_self,      \* the AliSv: [start, len], start an offset into s_mem
    s_out,       \* the chops made so far: sequence of [c, before, chopped, fault]
    \* ---- ali.h dynamic array
    d_da,        \* the handle `da` with its header: [isnull, count, capacity, data]
    d_pc,        \* "run" | "fault" (an access outside the allocation was made)
    d_nappend,   \* appends made so far; the next item appended is d_nappend + 1
    d_nremove,   \* removals made so far
    d_grown,     \* only appends were made since the empty handle
    d_last,      \* last operation: [op, i, before]
    \* ---- ali.h log
    l_loglevel,  \* ali_global_loglevel
    l_logfile,   \* ali_global_logfile: "NULL" or "stdout"
    l_sink,      \* the lines written to the log file
    l_last,      \* last call of ali_log_log: [level, msg, before]
    \* ---- ali.h temp allocator
    t_size,      \* ali_temp_buffer_size, the offset of the next allocation
    t_pc,        \* "run" | "abort" (ALI_ASSERT failed)
    t_stamps,    \* the values ali_temp_stamp has returned
    t_nalloc,    \* allocations made so far
    t_last,      \* last operation: [op, arg, before, ptr]
    \* ---- ali.h string builder
    b_sb,        \* AliSb: [data, count, capacity]
    b_fill,      \* the byte value realloc'ed memory happens to hold
    b_pc,        \* "run" | "abort" (ALI_ASSERT failed)
    b_npush,     \* push calls made so far
    b_last,      \* last call: [op, text, before]
    \* ---- ali.h ali_utf8len
    n_mem,       \* the null-terminated bytes handed to ali_utf8len
    n_utf8,      \* the pointer utf8, as an offset into n_mem
    n_len,       \* the local len
    n_pc,        \* "loop" | "returned" | "fault" (a read behind the bytes)
    n_prev       \* utf8 before the last iteration, -1 before the first

parseVars == <<p_pc, p_input, p_tail, p_result, p_lookup, p_arena0, p_ncalls>>
valueVars == <<v_array, v_object, v_arena, v_op, v_arg, v_ret>>
mainVars  == <<m_pc, m_file, m_fill, m_sb, m_value, m_obj, m_products, m_i, m_stdout,
               m_exit, m_why>>
arenaVars == <<a_regions, a_end, a_pc, a_size, a_region, a_blocks, a_nalloc,
               a_mark, a_premark, a_last>>
utf8Vars  == <<u_pc, u_utf8, u_cp, u_ptr, u_dec>>
svVars    == <<s_mem, s_self, s_out>>
daVars    == <<d_da, d_pc, d_nappend, d_nremove, d_grown, d_last>>
logVars == <<l_loglevel, l_logfile, l_sink, l_last>>
tempVars == <<t_size, t_pc, t_stamps, t_nalloc, t_last>>
sbVars == <<b_sb, b_fill, b_pc, b_npush, b_last>>
lenVars == <<n_mem, n_utf8, n_len, n_pc, n_prev>>
aliVars   == <<utf8Vars, svVars, daVars, logVars, tempVars, sbVars, lenVars>>
vars == <<parseVars, valueVars, mainVars, arenaVars, aliVars>>

\* what the actions of one component leave alone
notParse == <<valueVars, mainVars, arenaVars, aliVars>>
notValue == <<parseVars, mainVars, arenaVars, aliVars>>
notMain  == <<parseVars, valueVars, arenaVars, aliVars>>
notArena == <<parseVars, valueVars, mainVars, aliVars>>
jsonVars == <<parseVars, valueVars, mainVars, arenaVars>>
notUtf8  == <<jsonVars, svVars, daVars, logVars, tempVars, sbVars, lenVars>>
notSv    == <<jsonVars, utf8Vars, daVars, logVars, tempVars, sbVars, lenVars>>
notDa    == <<jsonVars, utf8Vars, svVars, logVars, tempVars, sbVars, lenVars>>
notLog == <<jsonVars, utf8Vars, svVars, daVars, tempVars, sbVars, lenVars>>
notTemp == <<jsonVars, utf8Vars, svVars, daVars, logVars, sbVars, lenVars>>
notSb == <<jsonVars, utf8Vars, svVars, daVars, logVars, tempVars, lenVars>>
notLen == <<jsonVars, utf8Vars, svVars, daVars, logVars, tempVars, sbVars>>

---------------------------------------------------------------------------
(* Characters and the <ctype.h> classification in the "C" locale.          *)

NUL == "NUL"

Digits == {"0", "1", "2", "3", "4", "5", "6", "7", "8", "9"}

Letters ==
    {"a", "b", "c", "d", "e", "f", "g", "h", "i", "j", "k", "l", "m",
     "n", "o", "p", "q", "r", "s", "t", "u", "v", "w", "x", "y", "z",
     "A", "B", "C", "D", "E", "F", "G", "H", "I", "J", "K", "L", "M",
     "N", "O", "P", "Q", "R", "S", "T", "U", "V", "W", "X", "Y", "Z"}

isdigit(c) == c \in Digits
isalpha(c) == c \in Letters
isspace(c) == c \in {" ", "\t", "\n", "\r", "\f", "VT"}

DigitVal ==
    "0" :> 0 @@ "1" :> 1 @@ "2" :> 2 @@ "3" :> 3 @@ "4" :> 4 @@
    "5" :> 5 @@ "6" :> 6 @@ "7" :> 7 @@ "8" :> 8 @@ "9" :> 9

DigitChar ==
    0 :> "0" @@ 1 :> "1" @@ 2 :> "2" @@ 3 :> "3" @@ 4 :> "4" @@
    5 :> "5" @@ 6 :> "6" @@ 7 :> "7" @@ 8 :> "8" @@ 9 :> "9"

RECURSIVE Pow10(_)
Pow10(n) == IF n = 0 THEN 1 ELSE 10 * Pow10(n - 1)

---------------------------------------------------------------------------
(* C strings: a char* is the byte sequence up to the first NUL.            *)

RECURSIVE CStr(_)
CStr(bytes) ==
    IF bytes = << >> \/ Head(bytes) = NUL THEN << >>
    ELSE <<Head(bytes)>> \o CStr(Tail(bytes))

\* strcmp(a, b) == 0 on two C strings
RECURSIVE strcmp_eq(_, _)
strcmp_eq(a, b) ==
    IF a = << >> \/ b = << >> THEN a = << >> /\ b = << >>
    ELSE Head(a) = Head(b) /\ strcmp_eq(Tail(a), Tail(b))

\* strncmp(a, b, n) == 0: at most n characters are compared
RECURSIVE strncmp_eq(_, _, _)
strncmp_eq(a, b, n) ==
    IF n = 0 THEN TRUE
    ELSE IF a = << >> \/ b = << >> THEN a = << >> /\ b = << >>
    ELSE Head(a) = Head(b) /\ strncmp_eq(Tail(a), Tail(b), n - 1)

---------------------------------------------------------------------------
(* Doubles.  A number is m * 10^e with m not divisible by 10 (e = 0 when   *)
(* m = 0): the decimal value strtod converts, exact for the short          *)
(* literals used here.                                                     *)

RECURSIVE Normalize(_, _)
Normalize(m, e) ==
    IF m = 0 THEN [m |-> 0, e |-> 0]
    ELSE IF m % 10 = 0 THEN Normalize(m \div 10, e + 1)
    ELSE [m |-> m, e |-> e]

\* end of the run of decimal digits of mem that starts at offset pos;
\* Len(mem) when the run reaches the end of the buffer
RECURSIVE DigitRunEnd(_, _)
DigitRunEnd(mem, pos) ==
    IF pos < Len(mem) /\ isdigit(mem[pos + 1])
    THEN DigitRunEnd(mem, pos + 1) ELSE pos

\* value of the digits mem[from+1 .. to], continuing the accumulator acc
RECURSIVE DigitsValue(_, _, _, _)
DigitsValue(mem, from, to, acc) ==
    IF from >= to THEN acc
    ELSE DigitsValue(mem, from + 1, to, acc * 10 + DigitVal[mem[from + 1]])

\* strtod(mem + pos, &endptr) for a subject that starts with a digit or '.':
\* digits, optional '.', digits, optional exponent.  The scan reads the
\* byte that ends each run, so a run that reaches the end of the buffer
\* reads behind it (fault).  Hexadecimal, "inf" and "nan" subjects do not
\* occur: no text of the model holds 'x' or 'X' after a leading 0.
strtod(mem, pos) ==
    LET i1 == DigitRunEnd(mem, pos)
        hasDot == i1 < Len(mem) /\ mem[i1 + 1] = "."
        f0 == i1 + 1
        f1 == IF hasDot THEN DigitRunEnd(mem, f0) ELSE i1
        nInt == i1 - pos
        nFrac == IF hasDot THEN f1 - f0 ELSE 0
        mEnd == IF hasDot /\ nInt + nFrac > 0 THEN f1 ELSE i1
        mant == DigitsValue(mem, f0, f0 + nFrac,
                            DigitsValue(mem, pos, i1, 0))
        hasE == mEnd < Len(mem) /\ mem[mEnd + 1] \in {"e", "E"}
        s0 == mEnd + 1
        hasSign == hasE /\ s0 < Len(mem) /\ mem[s0 + 1] \in {"+", "-"}
        x0 == IF hasSign THEN s0 + 1 ELSE s0
        x1 == IF hasE THEN DigitRunEnd(mem, x0) ELSE x0
        hasExp == hasE /\ x1 > x0
        expo == IF hasExp THEN DigitsValue(mem, x0, x1, 0) ELSE 0
        sexpo == IF hasSign /\ mem[s0 + 1] = "-" THEN 0 - expo ELSE expo
        last == IF hasExp THEN x1
                ELSE IF hasE THEN x0
                ELSE IF hasDot THEN f1 ELSE i1
    IN  IF nInt + nFrac = 0
        THEN \* no conversion: 0 is returned and endptr = nptr
             [fault |-> (IF hasDot THEN f1 ELSE i1) >= Len(mem),
              number |-> [m |-> 0, e |-> 0], endptr |-> pos]
        ELSE [fault |-> last >= Len(mem),
              number |-> Normalize(mant, sexpo - nFrac),
              endptr |-> IF hasExp THEN x1 ELSE mEnd]

\* integer to its decimal digits
RECURSIVE IntToDigits(_)
IntToDigits(n) ==
    IF n < 10 THEN <<DigitChar[n]>>
    ELSE IntToDigits(n \div 10) \o <<DigitChar[n % 10]>>

\* printf("%.2lf", number) for a non-negative number with at most two
\* fractional digits (the only numbers of the model)
FormatNumber(num) ==
    CASE num.e >= 0 ->
            IntToDigits(num.m * Pow10(num.e)) \o <<".", "0", "0">>
      [] num.e = -1 ->
            IntToDigits(num.m \div 10) \o <<".", DigitChar[num.m % 10], "0">>
      [] num.e = -2 ->
            IntToDigits(num.m \div 100)
                \o <<".", DigitChar[(num.m \div 10) % 10], DigitChar[num.m % 10]>>


---------------------------------------------------------------------------
(* Pointers.  A pointer result is NULL, the address of a live JsonValue,   *)
(* or what address arithmetic on NULL produces (NULL plus a member         *)
(* offset).                                                                *)

NULL == [base |-> "NULL", offset |-> 0]
AddrOf(v) == [base |-> "object", offset |-> 0, target |-> v]

\* sizes and member offsets of the LP64 layout of the structs
SizeofJsonArrayNode == 32
SizeofJsonObjectItem == 40
OffsetofNodeValue == 0
OffsetofItemValue == 8

---------------------------------------------------------------------------
(* JSON value model.  A JsonValue is [type, as]; `as` names the union      *)
(* member that was last written together with its payload.  A linked list  *)
(* is the sequence of its nodes from the head, << >> being the NULL head.  *)

JSON_NUMBER  == "JSON_NUMBER"
JSON_BOOLEAN == "JSON_BOOLEAN"
JSON_STRING  == "JSON_STRING"
JSON_ARRAY   == "JSON_ARRAY"
JSON_OBJECT  == "JSON_OBJECT"

\* an automatic JsonValue that was never written
Indeterminate == [type |-> "indeterminate", as |-> [member |-> "indeterminate"]]

json_alloc(arena, size) == [ptr |-> arena, arena |-> arena + size]

json_strndup(arena, bytes) ==
    [copy |-> CStr(bytes), arena |-> json_alloc(arena, Len(bytes) + 1).arena]

json_value_string(string) ==
    [type |-> JSON_STRING, as |-> [member |-> "string", string |-> string]]

json_value_number(number) ==
    [type |-> JSON_NUMBER, as |-> [member |-> "number", number |-> number]]

\* the payload is stored through the `number` member (a double 0.0 or 1.0)
json_value_boolean(boolean) ==
    [type |-> JSON_BOOLEAN,
     as |-> [member |-> "number",
             number |-> [m |-> (IF boolean THEN 1 ELSE 0), e |-> 0]]]

json_value_array ==
    [type |-> JSON_ARRAY, as |-> [member |-> "array", len |-> 0, next |-> << >>]]

json_value_object ==
    [type |-> JSON_OBJECT, as |-> [member |-> "object", len |-> 0, next |-> << >>]]

\* the list with `node` linked behind its last node (the walk to the tail)
RECURSIVE LinkAtTail(_, _)
LinkAtTail(list, node) ==
    IF list = << >> THEN <<node>>
    ELSE <<Head(list)>> \o LinkAtTail(Tail(list), node)

\* faulty variant of json_array_append: the new node is linked at the head
json_array_append_AtHead(array, value, arena) ==
    [array |-> [array EXCEPT !.len = @ + 1,
                             !.next = <<[value |-> value]>> \o @],
     arena |-> json_alloc(arena, SizeofJsonArrayNode).arena]

\* json_array_append on the JsonArray `array`; returns the array and arena
json_array_append(array, value, arena) ==
    [array |-> [array EXCEPT !.len = @ + 1,
                             !.next = LinkAtTail(@, [value |-> value])],
     arena |-> json_alloc(arena, SizeofJsonArrayNode).arena]

json_object_append(object, key, value, arena) ==
    [object |-> [object EXCEPT !.len = @ + 1,
                               !.next = LinkAtTail(@, [key |-> key, value |-> value])],
     arena |-> json_alloc(arena, SizeofJsonObjectItem).arena]

\* the node reached from `list` after the loop
\*   while (cur != NULL && index > 0) { cur = cur->next; index--; }
RECURSIVE WalkList(_, _)
WalkList(list, index) ==
    IF list # << >> /\ index > 0 THEN WalkList(Tail(list), index - 1) ELSE list

\* &cur->value for the node `cur` (a list suffix), the member at `offset`
AddrOfValueMember(cur, offset) ==
    IF cur = << >> THEN [base |-> "NULL", offset |-> offset]
    ELSE AddrOf(Head(cur).value)

json_object_get_item(object, index) ==
    IF index > object.len THEN NULL
    ELSE AddrOfValueMember(WalkList(object.next, index), OffsetofItemValue)

\* faulty variant of json_array_get_item: the walk to the index is left out
json_array_get_item_NoWalk(array, index) ==
    IF index > array.len THEN NULL
    ELSE AddrOfValueMember(array.next, OffsetofNodeValue)

json_array_get_item(array, index) ==
    IF index > array.len THEN NULL
    ELSE AddrOfValueMember(WalkList(array.next, index), OffsetofNodeValue)

\* typed accessors: the address of the payload on a tag match, else NULL
json_value_as_number(value) ==
    IF value.type # JSON_NUMBER THEN NULL ELSE AddrOf(value.as)

json_value_as_string(value) ==
    IF value.type # JSON_STRING THEN NULL ELSE AddrOf(value.as)

json_value_as_boolean(value) ==
    IF value.type # JSON_BOOLEAN THEN NULL ELSE AddrOf(value.as)

json_value_as_array(value) ==
    IF value.type # JSON_ARRAY THEN NULL ELSE AddrOf(value.as)

json_value_as_object(value) ==
    IF value.type # JSON_OBJECT THEN NULL ELSE AddrOf(value.as)

\* faulty variant of FindItem: the scan does not stop at the first match
RECURSIVE FindItem_LastMatch(_, _)
FindItem_LastMatch(list, key) ==
    IF list = << >> THEN NULL
    ELSE LET rest == FindItem_LastMatch(Tail(list), key)
         IN  IF rest # NULL THEN rest
             ELSE IF strcmp_eq(Head(list).key, key) THEN AddrOf(Head(list).value)
             ELSE NULL

\* the first item of the list whose key compares equal
RECURSIVE FindItem(_, _)
FindItem(list, key) ==
    IF list = << >> THEN NULL
    ELSE IF strcmp_eq(Head(list).key, key) THEN AddrOf(Head(list).value)
    ELSE FindItem(Tail(list), key)

json_object_find_value(object, key) ==
    IF object.len = 0 THEN NULL ELSE FindItem(object.next, key)

\* value->as.boolean read back from the union: the first byte of the
\* member that was written (little-endian doubles 0.0 and 1.0 start with
\* a zero byte)
ReadBoolean(as) ==
    CASE as.member = "boolean" -> as.boolean
      [] as.member = "number" /\ as.number.m \in {0, 1} /\ as.number.e = 0 -> FALSE

---------------------------------------------------------------------------
(* JSON lexer.  A JsonLexer is [mem, content_start, content_len, cursor]:  *)
(* mem is the caller's buffer from content_start on, cursor an offset      *)
(* into it.                                                                *)

json_lexer(mem, content_size) ==
    [mem |-> mem, content_start |-> 0, content_len |-> content_size, cursor |-> 0]

json_is_empty(lexer) ==
    lexer.content_start >= lexer.content_start + lexer.content_len

\* *lexer->cursor can be read iff the cursor is inside the buffer
Readable(lexer) == lexer.cursor < Len(lexer.mem)
Cur(lexer) == lexer.mem[lexer.cursor + 1]
Step(lexer) == [lexer EXCEPT !.cursor = @ + 1]

RECURSIVE TrimLeftLoop(_)
TrimLeftLoop(lexer) ==
    IF json_is_empty(lexer) THEN [fault |-> FALSE, lexer |-> lexer]
    ELSE IF ~Readable(lexer) THEN [fault |-> TRUE, lexer |-> lexer]
    ELSE IF isspace(Cur(lexer)) THEN TrimLeftLoop(Step(lexer))
    ELSE [fault |-> FALSE, lexer |-> lexer]

json_lexer_trim_left(lexer) ==
    IF json_is_empty(lexer) THEN [fault |-> FALSE, lexer |-> lexer]
    ELSE TrimLeftLoop(lexer)

\* status "true" / "false" as returned, "fault" for a read behind the buffer
json_lexer_expect_char(lexer, c) ==
    IF json_is_empty(lexer) THEN [status |-> "false", lexer |-> lexer]
    ELSE IF ~Readable(lexer) THEN [status |-> "fault", lexer |-> lexer]
    ELSE IF Cur(lexer) # c THEN [status |-> "false", lexer |-> lexer]
    ELSE [status |-> "true", lexer |-> Step(lexer)]

\* while (!json_is_empty(lexer) && *lexer->cursor != '"') lexer->cursor++;
RECURSIVE StringLoop(_)
StringLoop(lexer) ==
    IF json_is_empty(lexer) THEN [fault |-> FALSE, lexer |-> lexer]
    ELSE IF ~Readable(lexer) THEN [fault |-> TRUE, lexer |-> lexer]
    ELSE IF Cur(lexer) # "\"" THEN StringLoop(Step(lexer))
    ELSE [fault |-> FALSE, lexer |-> lexer]

\* while (!json_is_empty(lexer) && !isalpha(*lexer->cursor)) lexer->cursor++;
RECURSIVE BooleanLoop(_)
BooleanLoop(lexer) ==
    IF json_is_empty(lexer) THEN [fault |-> FALSE, lexer |-> lexer]
    ELSE IF ~Readable(lexer) THEN [fault |-> TRUE, lexer |-> lexer]
    ELSE IF ~isalpha(Cur(lexer)) THEN BooleanLoop(Step(lexer))
    ELSE [fault |-> FALSE, lexer |-> lexer]

\* the bytes of mem between two offsets (start inclusive, end exclusive)
Span(mem, start, end) == SubSeq(mem, start + 1, end)

ParseResult(status, lexer, value, arena) ==
    [status |-> status, lexer |-> lexer, value |-> value, arena |-> arena]

RECURSIVE json_lexer_parse_value(_, _, _)
RECURSIVE json_lexer_parse_object_item(_, _)
RECURSIVE ObjectLoop(_, _, _)
RECURSIVE ArrayLoop(_, _, _)

\* the number branch
ParseNumber(lexer, arena) ==
    LET d == strtod(lexer.mem, lexer.cursor)
    IN  ParseResult(IF d.fault THEN "fault" ELSE "true",
                    [lexer EXCEPT !.cursor = d.endptr],
                    [type |-> JSON_NUMBER,
                     as |-> [member |-> "number", number |-> d.number]],
                    arena)

\* the string branch
ParseString(lexer, arena) ==
    LET start == lexer.cursor + 1
        s == StringLoop(Step(lexer))
        dup == json_strndup(arena, Span(lexer.mem, start, s.lexer.cursor))
        e == json_lexer_expect_char(s.lexer, "\"")
    IN  IF s.fault
        THEN ParseResult("fault", s.lexer,
                         [type |-> JSON_STRING, as |-> [member |-> "indeterminate"]],
                         arena)
        ELSE ParseResult(e.status, e.lexer, json_value_string(dup.copy), dup.arena)

\* faulty variant of the boolean branch: the arena is rewound to its start
ParseBoolean_RewindToStart(lexer, old, arena) ==
    LET start == lexer.cursor
        b == BooleanLoop(lexer)
        dup == json_strndup(arena, Span(lexer.mem, start, b.lexer.cursor))
        value_ == dup.copy
        boolean == strncmp_eq(value_, <<"t", "r", "u", "e">>, b.lexer.cursor - start)
    IN  IF b.fault
        THEN ParseResult("fault", b.lexer,
                         [type |-> JSON_BOOLEAN, as |-> old.as], arena)
        ELSE ParseResult("true", b.lexer,
                         [type |-> JSON_STRING,
                          as |-> [member |-> "boolean", boolean |-> boolean]],
                         0)

\* the boolean branch; `old` is the JsonValue being overwritten
ParseBoolean(lexer, old, arena) ==
    LET stamp == arena
        start == lexer.cursor
        b == BooleanLoop(lexer)
        dup == json_strndup(arena, Span(lexer.mem, start, b.lexer.cursor))
        value_ == dup.copy
        boolean == strncmp_eq(value_, <<"t", "r", "u", "e">>, b.lexer.cursor - start)
    IN  IF b.fault
        THEN ParseResult("fault", b.lexer,
                         [type |-> JSON_BOOLEAN, as |-> old.as], arena)
        ELSE ParseResult("true", b.lexer,
                         [type |-> JSON_STRING,
                          as |-> [member |-> "boolean", boolean |-> boolean]],
                         stamp)

\* what follows the loop of the object and array branches
CloseCollection(loop, type, closing) ==
    LET value == [type |-> type, as |-> loop.list]
        t == json_lexer_trim_left(loop.lexer)
        e == json_lexer_expect_char(t.lexer, closing)
    IN  IF loop.status # "break"
        THEN ParseResult(loop.status, loop.lexer, value, loop.arena)
        ELSE IF t.fault THEN ParseResult("fault", t.lexer, value, loop.arena)
        ELSE ParseResult(e.status, e.lexer, value, loop.arena)

\* the object branch
ParseObject(lexer, arena) ==
    LET e0 == json_lexer_expect_char(lexer, "{")   \* its result is not tested
    IN  CloseCollection(ObjectLoop(e0.lexer, json_value_object.as, arena),
                        JSON_OBJECT, "}")

\* the array branch
ParseArray(lexer, arena) ==
    LET e0 == json_lexer_expect_char(lexer, "[")
    IN  IF e0.status # "true"
        THEN ParseResult(e0.status, e0.lexer, json_value_array, arena)
        ELSE CloseCollection(ArrayLoop(e0.lexer, json_value_array.as, arena),
                             JSON_ARRAY, "]")

\* json_lexer_parse_value(lexer, value) with json_arena_size = arena and
\* *value = old on entry
json_lexer_parse_value(lexer0, old, arena) ==
    LET t == json_lexer_trim_left(lexer0)
        lexer == t.lexer
    IN  IF t.fault \/ ~Readable(lexer) THEN ParseResult("fault", lexer, old, arena)
        ELSE IF isdigit(Cur(lexer)) \/ Cur(lexer) = "." THEN ParseNumber(lexer, arena)
        ELSE IF Cur(lexer) = "\"" THEN ParseString(lexer, arena)
        ELSE IF Cur(lexer) = "f" \/ Cur(lexer) = "t" THEN ParseBoolean(lexer, old, arena)
        ELSE IF Cur(lexer) = "{" THEN ParseObject(lexer, arena)
        ELSE IF Cur(lexer) = "[" THEN ParseArray(lexer, arena)
        ELSE ParseResult("false", lexer, old, arena)

\* while (!json_is_empty(lexer)) { item; append; if not ',' break; ',' }
\* status "break" when the loop is left normally
ObjectLoop(lexer, object, arena) ==
    IF json_is_empty(lexer)
    THEN [status |-> "break", lexer |-> lexer, list |-> object, arena |-> arena]
    ELSE
      LET it == json_lexer_parse_object_item(lexer, arena)
          ap == json_object_append(object, it.key, it.value, it.arena)
          e == json_lexer_expect_char(it.lexer, ",")
      IN  IF it.status # "true"
          THEN [status |-> it.status, lexer |-> it.lexer, list |-> object,
                arena |-> it.arena]
          ELSE IF ~Readable(it.lexer)
          THEN [status |-> "fault", lexer |-> it.lexer, list |-> ap.object,
                arena |-> ap.arena]
          ELSE IF Cur(it.lexer) # ","
          THEN [status |-> "break", lexer |-> it.lexer, list |-> ap.object,
                arena |-> ap.arena]
          ELSE IF e.status # "true"
          THEN [status |-> e.status, lexer |-> e.lexer, list |-> ap.object,
                arena |-> ap.arena]
          ELSE ObjectLoop(e.lexer, ap.object, ap.arena)

ArrayLoop(lexer, array, arena) ==
    IF json_is_empty(lexer)
    THEN [status |-> "break", lexer |-> lexer, list |-> array, arena |-> arena]
    ELSE
      LET v == json_lexer_parse_value(lexer, Indeterminate, arena)
          ap == json_array_append(array, v.value, v.arena)
          e == json_lexer_expect_char(v.lexer, ",")
      IN  IF v.status # "true"
          THEN [status |-> v.status, lexer |-> v.lexer, list |-> array,
                arena |-> v.arena]
          ELSE IF ~Readable(v.lexer)
          THEN [status |-> "fault", lexer |-> v.lexer, list |-> ap.array,
                arena |-> ap.arena]
          ELSE IF Cur(v.lexer) # ","
          THEN [status |-> "break", lexer |-> v.lexer, list |-> ap.array,
                arena |-> ap.arena]
          ELSE IF e.status # "true"
          THEN [status |-> e.status, lexer |-> e.lexer, list |-> ap.array,
                arena |-> ap.arena]
          ELSE ArrayLoop(e.lexer, ap.array, ap.arena)

\* json_lexer_parse_object_item(lexer, item): [status, lexer, key, value, arena]
json_lexer_parse_object_item(lexer0, arena) ==
    LET t == json_lexer_trim_left(lexer0)
        e1 == json_lexer_expect_char(t.lexer, "\"")
        start == e1.lexer.cursor
        s == StringLoop(e1.lexer)
        dup == json_strndup(arena, Span(lexer0.mem, start, s.lexer.cursor))
        e2 == json_lexer_expect_char(s.lexer, "\"")
        e3 == json_lexer_expect_char(e2.lexer, ":")
        v == json_lexer_parse_value(e3.lexer, Indeterminate, dup.arena)
        Item(status, lexer, key, value, ar) ==
            [status |-> status, lexer |-> lexer, key |-> key, value |-> value,
             arena |-> ar]
    IN  IF t.fault THEN Item("fault", t.lexer, << >>, Indeterminate, arena)
        ELSE IF e1.status # "true"
        THEN Item(e1.status, e1.lexer, << >>, Indeterminate, arena)
        ELSE IF s.fault THEN Item("fault", s.lexer, << >>, Indeterminate, arena)
        ELSE IF e2.status # "true"
        THEN Item(e2.status, e2.lexer, dup.copy, Indeterminate, dup.arena)
        ELSE IF e3.status # "true"
        THEN Item(e3.status, e3.lexer, dup.copy, Indeterminate, dup.arena)
        ELSE Item(v.status, v.lexer, dup.copy, v.value, v.arena)

---------------------------------------------------------------------------
(* Inputs of the parser: families of texts, each with what the family is   *)
(* expected to parse to.                                                   *)

MaxItems == 3      \* longest number array of the "numarr" family
MaxWs == 2         \* most gaps that receive whitespace in the "ws" family

Quoted(s) == <<"\"">> \o s \o <<"\"">>

\* the texts of `parts` with `sep` between consecutive ones
RECURSIVE JoinTexts(_, _)
JoinTexts(parts, sep) ==
    IF parts = << >> THEN << >>
    ELSE IF Len(parts) = 1 THEN parts[1]
    ELSE parts[1] \o sep \o JoinTexts(Tail(parts), sep)

Num(m, e) == [m |-> m, e |-> e]

\* unsigned decimal literals and the number each denotes
NumberLits ==
    { [text |-> <<"1">>, number |-> Num(1, 0)],
      [text |-> <<"2">>, number |-> Num(2, 0)],
      [text |-> <<"3">>, number |-> Num(3, 0)],
      [text |-> <<"1", "0">>, number |-> Num(1, 1)],
      [text |-> <<"2", ".", "5">>, number |-> Num(25, -1)] }

TrueWord == <<"t", "r", "u", "e">>
FalseWord == <<"f", "a", "l", "s", "e">>

\* {"a": <lit>, <rest>}: first item a boolean literal, further items follow
BoolFirstInputs ==
    { [family |-> "boolfirst",
       text |-> <<"{">> \o Quoted(<<"a">>) \o <<":", " ">> \o lit \o <<",", " ">>
                \o Quoted(<<"b">>) \o <<":", " ">> \o rest.text \o <<"}">>,
       expect |-> [a |-> (lit = TrueWord), b |-> rest.value]] :
      lit \in {TrueWord, FalseWord},
      rest \in { [text |-> Quoted(<<"h", "i">>),
                  value |-> json_value_string(<<"h", "i">>)],
                 [text |-> <<"1">>, value |-> json_value_number(Num(1, 0))] } }

\* [] and {}
EmptyInputs ==
    { [family |-> "empty", text |-> <<"[", "]">>, expect |-> [type |-> JSON_ARRAY]],
      [family |-> "empty", text |-> <<"{", "}">>, expect |-> [type |-> JSON_OBJECT]] }

\* literals that begin with t or f; expect = the literal is the word true
BoolLitInputs ==
    { [family |-> "boollit", text |-> w, expect |-> [istrue |-> (w = TrueWord)]] :
      w \in { TrueWord, FalseWord, <<"t">>, <<"f">>, <<"t", "r", "u">>,
              <<"t", "r", "u", "e", "x">>, <<"f", "a", "l", "s">> } }

\* a boolean literal followed by a separator; expect = the number of
\* characters of the literal and the separator behind it
BoolSepInputs ==
    { [family |-> "boolsep", text |-> w \o <<sep>>,
       expect |-> [after |-> Len(w), sep |-> sep]] :
      w \in { TrueWord, FalseWord }, sep \in { ",", "]", "}" } }

\* {"k": [n1, n2, ..., nm]} with m >= 1 number literals
NumArrInputs ==
    { [family |-> "numarr",
       text |-> <<"{">> \o Quoted(<<"k">>) \o <<":", " ", "[">>
                \o JoinTexts([i \in DOMAIN lits |-> lits[i].text], <<",", " ">>)
                \o <<"]", "}">>,
       expect |-> [numbers |-> [i \in DOMAIN lits |-> lits[i].number]]] :
      lits \in UNION { [1..m -> NumberLits] : m \in 1..MaxItems } }

\* token lists of texts the parser accepts
BaseTokens ==
    { << <<"{">>, Quoted(<<"k">>), <<":">>, <<"[">>, <<"1">>, <<",">>, <<"2">>,
         <<"]">>, <<"}">> >>,
      << <<"[">>, <<"1">>, <<",">>, Quoted(<<"x">>), <<"]">> >>,
      << <<"{">>, Quoted(<<"a">>), <<":">>, <<"1">>, <<",">>, Quoted(<<"b">>),
         <<":">>, <<"2">>, <<"}">> >> }

\* the tokens with the whitespace character w behind every token of gaps
RECURSIVE WsText(_, _, _, _)
WsText(tokens, gaps, w, i) ==
    IF i > Len(tokens) THEN << >>
    ELSE tokens[i] \o (IF i \in gaps THEN <<w>> ELSE << >>)
         \o WsText(tokens, gaps, w, i + 1)

\* a base text with whitespace inserted between tokens; expect = base text
WsInputs ==
    { [family |-> "ws", text |-> WsText(x.tokens, x.gaps, x.w, 1),
       expect |-> [base |-> WsText(x.tokens, {}, " ", 1)]] :
      x \in UNION { { [tokens |-> tokens, gaps |-> gaps, w |-> w] :
                      gaps \in { g \in SUBSET (1..(Len(tokens) - 1)) :
                                 Cardinality(g) <= MaxWs },
                      w \in {" ", "\n"} } :
                    tokens \in BaseTokens } }

\* content that ends before the delimiter it is waiting for: an unterminated
\* string, an unterminated key, an unterminated string in an array
CutInputs ==
    { [family |-> "cut", text |-> t, expect |-> [none |-> TRUE]] :
      t \in { <<"\"", "a", "b">>, <<"{", "\"", "k">>, <<"[", "\"", "x">> } }

ParserInputs ==
    BoolFirstInputs \cup EmptyInputs \cup BoolLitInputs \cup BoolSepInputs
        \cup NumArrInputs \cup WsInputs \cup CutInputs

\* what may lie behind the content: nothing, a terminating NUL, other bytes
Tails == { << >>, <<NUL>>, <<"1", NUL>>, <<"\"", NUL>> }

NoLookup == [key |-> << >>, found |-> NULL, index |-> 0, item |-> NULL]
NoResult == ParseResult("none", json_lexer(<< >>, 0), Indeterminate, 0)

ParseInit ==
    /\ p_pc = "start"
    /\ p_input \in ParserInputs
    /\ p_tail \in Tails
    /\ p_result = NoResult
    /\ p_lookup = NoLookup
    /\ p_arena0 = 0
    /\ p_ncalls = 0

ParseOff ==
    /\ p_pc = "off"
    /\ p_input = [family |-> "none", text |-> << >>, expect |-> [none |-> TRUE]]
    /\ p_tail = << >>
    /\ p_result = NoResult
    /\ p_lookup = NoLookup
    /\ p_arena0 = 0
    /\ p_ncalls = 0

\* JsonLexer lexer = json_lexer(text, len); json_lexer_parse_value(&lexer, &value)
\* with json_arena_size = arena on entry
ParseText(text, tail, arena) ==
    json_lexer_parse_value(json_lexer(text \o tail, Len(text)), Indeterminate, arena)

MaxCalls == 2      \* calls of json_lexer_parse_value in one run

\* the first call of the process: json_arena_size is 0
Parse ==
    /\ p_pc = "start"
    /\ p_result' = ParseText(p_input.text, p_tail, 0)
    /\ p_pc' = "parsed"
    /\ p_ncalls' = 1
    /\ UNCHANGED <<p_input, p_tail, p_lookup, p_arena0>>
    /\ UNCHANGED notParse

\* texts of the later calls
FollowInputs ==
    { x \in ParserInputs : x.family \in {"boolfirst", "empty", "boollit", "boolsep"} }

\* a later call, on another text: the arena is as the last call left it
ParseAgain(input, tail) ==
    /\ p_pc = "parsed"
    /\ p_result.status # "fault"
    /\ p_ncalls < MaxCalls
    /\ p_input' = input
    /\ p_tail' = tail
    /\ p_arena0' = p_result.arena
    /\ p_result' = ParseText(input.text, tail, p_result.arena)
    /\ p_ncalls' = p_ncalls + 1
    /\ UNCHANGED <<p_pc, p_lookup>>
    /\ UNCHANGED notParse

\* json_object_find_value(json_value_as_object(&value), key)
FindKey(key) ==
    /\ p_pc = "parsed"
    /\ p_result.status = "true"
    /\ json_value_as_object(p_result.value) # NULL
    /\ p_lookup' = [p_lookup EXCEPT
            !.key = key,
            !.found = json_object_find_value(
                          json_value_as_object(p_result.value).target, key)]
    /\ p_pc' = "found"
    /\ UNCHANGED <<p_input, p_tail, p_result, p_arena0, p_ncalls>>
    /\ UNCHANGED notParse

\* json_array_get_item(json_value_as_array(found), index)
GetItem(index) ==
    /\ p_pc = "found"
    /\ p_lookup.found # NULL
    /\ json_value_as_array(p_lookup.found.target) # NULL
    /\ p_lookup' = [p_lookup EXCEPT
            !.index = index,
            !.item = json_array_get_item(
                         json_value_as_array(p_lookup.found.target).target, index)]
    /\ p_pc' = "item"
    /\ UNCHANGED <<p_input, p_tail, p_result, p_arena0, p_ncalls>>
    /\ UNCHANGED notParse

LookupKeys == { <<"a">>, <<"b">>, <<"k">> }

---------------------------------------------------------------------------
(* JSON serializer: the text json_stringify writes to standard output.     *)

RECURSIVE json_stringify(_)
RECURSIVE StringifyArrayLoop(_)
RECURSIVE StringifyObjectLoop(_)

\* faulty variant of StringifyArrayLoop: ", " is printed behind every item
RECURSIVE StringifyArrayLoop_Trailing(_)
StringifyArrayLoop_Trailing(item) ==
    IF item = << >> THEN << >>
    ELSE json_stringify(Head(item).value) \o <<",", " ">>
         \o StringifyArrayLoop_Trailing(Tail(item))

\* while (item != NULL) { stringify; item = item->next; if (item != NULL) ", " }
StringifyArrayLoop(item) ==
    IF item = << >> THEN << >>
    ELSE json_stringify(Head(item).value)
         \o (IF Tail(item) # << >> THEN <<",", " ">> ELSE << >>)
         \o StringifyArrayLoop(Tail(item))

StringifyObjectLoop(item) ==
    IF item = << >> THEN << >>
    ELSE Quoted(Head(item).key) \o <<":", " ">>
         \o json_stringify(Head(item).value)
         \o (IF Tail(item) # << >> THEN <<",", " ">> ELSE << >>)
         \o StringifyObjectLoop(Tail(item))

json_stringify(value) ==
    CASE value.type = JSON_NUMBER /\ value.as.member = "number" ->
            FormatNumber(value.as.number)
      [] value.type = JSON_STRING /\ value.as.member = "string" ->
            Quoted(value.as.string)
      [] value.type = JSON_BOOLEAN ->
            IF ReadBoolean(value.as) THEN TrueWord ELSE FalseWord
      [] value.type = JSON_ARRAY /\ value.as.member = "array" ->
            <<"[">> \o StringifyArrayLoop(value.as.next) \o <<"]">>
      [] value.type = JSON_OBJECT /\ value.as.member = "object" ->
            <<"{">> \o StringifyObjectLoop(value.as.next) \o <<"}">>

---------------------------------------------------------------------------
(* Value model harness: one collection is grown by appends; lookups and    *)
(* the serializer are applied to it.                                       *)

MaxLen == 3        \* longest array / object built by the harness

\* json_value_array() followed by json_array_append of each value
RECURSIVE ArrayOf(_, _)
ArrayOf(values, array) ==
    IF values = << >> THEN array
    ELSE ArrayOf(Tail(values),
                 [array EXCEPT !.as = json_array_append(@, Head(values), 0).array])

\* values a caller appends: scalars from the constructors, nested collections
ItemValues ==
    { json_value_number(Num(1, 0)),
      json_value_number(Num(25, -1)),
      json_value_string(<<"x">>),
      json_value_boolean(TRUE),
      json_value_array,
      ArrayOf(<<json_value_number(Num(2, 0)), json_value_string(<<"y">>)>>,
              json_value_array),
      [json_value_object EXCEPT
          !.as = json_object_append(@, <<"n">>, json_value_number(Num(3, 0)), 0).object] }

ItemKeys == { <<"a">>, <<"a", "b">> }
FindKeys == ItemKeys \cup { <<"b">>, << >> }

ValueInit ==
    /\ v_array = json_value_array
    /\ v_object = json_value_object
    /\ v_arena = 0
    /\ v_op \in {"new_array", "new_object"}
    /\ v_arg = 0
    /\ v_ret = NULL

ValueOff ==
    /\ v_array = json_value_array
    /\ v_object = json_value_object
    /\ v_arena = 0
    /\ v_op = "off"
    /\ v_arg = 0
    /\ v_ret = NULL

OnArray == v_op \in {"new_array", "array_append", "array_get", "array_stringify"}
OnObject == v_op \in {"new_object", "object_append", "object_get", "find",
                      "object_stringify"}

ArrayAppend(value) ==
    /\ OnArray
    /\ v_array.as.len < MaxLen
    /\ LET r == json_array_append(v_array.as, value, v_arena)
       IN  /\ v_array' = [v_array EXCEPT !.as = r.array]
           /\ v_arena' = r.arena
    /\ v_op' = "array_append"
    /\ v_arg' = 0
    /\ v_ret' = NULL
    /\ UNCHANGED v_object
    /\ UNCHANGED notValue

ObjectAppend(key, value) ==
    /\ OnObject
    /\ v_object.as.len < MaxLen
    /\ LET r == json_object_append(v_object.as, key, value, v_arena)
       IN  /\ v_object' = [v_object EXCEPT !.as = r.object]
           /\ v_arena' = r.arena
    /\ v_op' = "object_append"
    /\ v_arg' = 0
    /\ v_ret' = NULL
    /\ UNCHANGED v_array
    /\ UNCHANGED notValue

ArrayGetItem(index) ==
    /\ OnArray
    /\ v_op' = "array_get"
    /\ v_arg' = index
    /\ v_ret' = json_array_get_item(json_value_as_array(v_array).target, index)
    /\ UNCHANGED <<v_array, v_object, v_arena>>
    /\ UNCHANGED notValue

ObjectGetItem(index) ==
    /\ OnObject
    /\ v_op' = "object_get"
    /\ v_arg' = index
    /\ v_ret' = json_object_get_item(json_value_as_object(v_object).target, index)
    /\ UNCHANGED <<v_array, v_object, v_arena>>
    /\ UNCHANGED notValue

ObjectFindValue(key) ==
    /\ OnObject
    /\ v_op' = "find"
    /\ v_arg' = key
    /\ v_ret' = json_object_find_value(json_value_as_object(v_object).target, key)
    /\ UNCHANGED <<v_array, v_object, v_arena>>
    /\ UNCHANGED notValue

ArrayStringify ==
    /\ OnArray
    /\ v_op' = "array_stringify"
    /\ v_arg' = 0
    /\ v_ret' = json_stringify(v_array)
    /\ UNCHANGED <<v_array, v_object, v_arena>>
    /\ UNCHANGED notValue

ObjectStringify ==
    /\ OnObject
    /\ v_op' = "object_stringify"
    /\ v_arg' = 0
    /\ v_ret' = json_stringify(v_object)
    /\ UNCHANGED <<v_array, v_object, v_arena>>
    /\ UNCHANGED notValue

---------------------------------------------------------------------------
(* String builder: the part main uses, ali_sb_read_file.                   *)

ALI_DA_DEFAULT_INIT_CAPACITY == 8

\* the while loop of ali_sb_maybe_resize: the capacity it settles on
RECURSIVE SbGrow(_, _, _)
SbGrow(count, to_add, capacity) ==
    IF count + to_add >= capacity
    THEN SbGrow(count, to_add,
                IF capacity = 0 THEN ALI_DA_DEFAULT_INIT_CAPACITY ELSE capacity * 2)
    ELSE capacity

\* n bytes of value fill
RECURSIVE Fill(_, _)
Fill(n, fill) == IF n <= 0 THEN << >> ELSE <<fill>> \o Fill(n - 1, fill)

\* realloc(data, capacity): the old bytes are kept, the new ones hold
\* whatever the allocator left there (the byte `fill`)
Realloc(data, capacity, fill) == data \o Fill(capacity - Len(data), fill)

ali_sb_maybe_resize(self, to_add, fill) ==
    IF self.count + to_add >= self.capacity
    THEN LET cap == SbGrow(self.count, to_add, self.capacity)
         IN  [self EXCEPT !.capacity = cap, !.data = Realloc(self.data, cap, fill)]
    ELSE self

\* ali_sb_read_file(self, path) when fopen succeeds on a file holding `text`
ali_sb_read_file(self, text, fill) ==
    LET n == Len(text)
        grown == ali_sb_maybe_resize(self, n, fill)
    IN  [grown EXCEPT
            !.data = SubSeq(@, 1, grown.count) \o text
                     \o SubSeq(@, grown.count + n + 1, grown.capacity),
            !.count = @ + n]

---------------------------------------------------------------------------
(* Demonstration program main.c, one action per statement.                 *)

ProductsKey == <<"p", "r", "o", "d", "u", "c", "t", "s">>

\* {"<key>": <value>}
OneItemObject(key, value) ==
    <<"{">> \o Quoted(key) \o <<":", " ">> \o value \o <<"}">>

\* contents of products.json
MainTexts ==
    { OneItemObject(ProductsKey,
                    <<"[">> \o OneItemObject(<<"i", "d">>, <<"1">>) \o <<"]">>),
      <<"[", "]">>,
      << >>,
      <<"1">>,
      TrueWord,
      Quoted(<<"x">>),
      OneItemObject(ProductsKey, <<"1">>),
      OneItemObject(ProductsKey, Quoted(<<"x">>)),
      OneItemObject(ProductsKey, <<"[", "]">>),
      OneItemObject(ProductsKey, <<"[", "t", "r", "u", "e", "]">>),
      OneItemObject(ProductsKey, OneItemObject(<<"a">>, <<"1">>)),
      OneItemObject(<<"o", "t", "h", "e", "r">>, <<"[", "1", "]">>),
      OneItemObject(<<"p">>, <<"[", "1", "]">>),
      <<"{">> \o Quoted(<<"a">>) \o <<":", "1", ",">>
          \o Quoted(ProductsKey) \o <<":", "[", "2", ",", " ">> \o Quoted(<<"x">>)
          \o <<",", "[", "3", "]", "]", "}">>,
      <<"{">> \o Quoted(ProductsKey) \o <<":", "1", ",">>
          \o Quoted(ProductsKey) \o <<":", "[", "2", "]", "}">>,
      <<"{">> \o Quoted(ProductsKey) \o <<":", "[", "2", "]", ",">>
          \o Quoted(ProductsKey) \o <<":", "1", "}">>,
      <<"{">> \o Quoted(ProductsKey) \o <<":", " ", "[", "1", "]">>,
      <<"{">> \o Quoted(ProductsKey) \o <<":", " ", "[", "1">>,
      <<"{">> \o Quoted(ProductsKey) \o <<":", " ">> \o <<"\"", "a", "b">> }
    \cup
    { OneItemObject(ProductsKey,
            <<"[">> \o JoinTexts([i \in DOMAIN lits |-> lits[i].text], <<",", " ">>)
            \o <<"]">>) :
      lits \in UNION { [1..m -> NumberLits] : m \in 1..MaxItems } }

MainFiles ==
    { [readable |-> FALSE, text |-> << >>] }
        \cup { [readable |-> TRUE, text |-> t] : t \in MainTexts }

\* byte values the uninitialised part of the buffer may hold
FillBytes == { NUL, "}", "]", "1" }

EmptySb == [data |-> << >>, count |-> 0, capacity |-> 0]

MainInit ==
    /\ m_pc = "read"
    /\ m_file \in MainFiles
    /\ m_fill \in FillBytes
    /\ m_sb = EmptySb
    /\ m_value = Indeterminate
    /\ m_obj = NULL
    /\ m_products = NULL
    /\ m_i = 0
    /\ m_stdout = << >>
    /\ m_exit = -1
    /\ m_why = "running"

MainOff ==
    /\ m_pc = "off"
    /\ m_file = [readable |-> FALSE, text |-> << >>]
    /\ m_fill = NUL
    /\ m_sb = EmptySb
    /\ m_value = Indeterminate
    /\ m_obj = NULL
    /\ m_products = NULL
    /\ m_i = 0
    /\ m_stdout = << >>
    /\ m_exit = -1
    /\ m_why = "running"

\* return code;
MainReturn(code, why) ==
    /\ m_pc' = "done"
    /\ m_exit' = code
    /\ m_why' = why

\* if (!sb_read_file(&sb, "products.json")) return 1;
MainRead ==
    /\ m_pc = "read"
    /\ IF ~m_file.readable
       THEN MainReturn(1, "read") /\ UNCHANGED m_sb
       ELSE /\ m_sb' = ali_sb_read_file(m_sb, m_file.text, m_fill)
            /\ m_pc' = "parse"
            /\ UNCHANGED <<m_exit, m_why>>
    /\ UNCHANGED <<m_file, m_fill, m_value, m_obj, m_products, m_i, m_stdout>>
    /\ UNCHANGED notMain

\* lexer = json_lexer(sb.data, sb.count);
\* if (!json_lexer_parse_value(&lexer, &value)) return 1;
MainParse ==
    /\ m_pc = "parse"
    /\ LET r == json_lexer_parse_value(json_lexer(m_sb.data, m_sb.count),
                                       m_value, 0)
       IN  /\ m_value' = r.value
           /\ IF r.status = "true"
              THEN m_pc' = "as_object" /\ UNCHANGED <<m_exit, m_why>>
              ELSE IF r.status = "false" THEN MainReturn(1, "parse")
              ELSE m_pc' = "fault" /\ UNCHANGED <<m_exit, m_why>>
    /\ UNCHANGED <<m_file, m_fill, m_sb, m_obj, m_products, m_i, m_stdout>>
    /\ UNCHANGED notMain

\* value_as_object = json_value_as_object(&value); if NULL return 1;
MainAsObject ==
    /\ m_pc = "as_object"
    /\ m_obj' = json_value_as_object(m_value)
    /\ IF m_obj' = NULL THEN MainReturn(1, "as_object")
       ELSE m_pc' = "find" /\ UNCHANGED <<m_exit, m_why>>
    /\ UNCHANGED <<m_file, m_fill, m_sb, m_value, m_products, m_i, m_stdout>>
    /\ UNCHANGED notMain

\* products_json = json_object_find_value(value_as_object, "products");
MainFind ==
    /\ m_pc = "find"
    /\ m_products' = json_object_find_value(m_obj.target, ProductsKey)
    /\ IF m_products' = NULL THEN MainReturn(1, "find")
       ELSE m_pc' = "as_array" /\ UNCHANGED <<m_exit, m_why>>
    /\ UNCHANGED <<m_file, m_fill, m_sb, m_value, m_obj, m_i, m_stdout>>
    /\ UNCHANGED notMain

\* products = json_value_as_array(products_json); if NULL return 1;
MainAsArray ==
    /\ m_pc = "as_array"
    /\ m_products' = json_value_as_array(m_products.target)
    /\ IF m_products' = NULL THEN MainReturn(1, "as_array")
       ELSE m_pc' = "loop" /\ UNCHANGED <<m_exit, m_why>>
    /\ UNCHANGED <<m_file, m_fill, m_sb, m_value, m_obj, m_i, m_stdout>>
    /\ UNCHANGED notMain

\* loop body: json_stringify(json_array_get_item(products, i)); printf("\n");
MainPrint ==
    /\ m_pc = "loop"
    /\ m_i < m_products.target.len
    /\ LET value == json_array_get_item(m_products.target, m_i)
       IN  m_stdout' = m_stdout \o json_stringify(value.target) \o <<"\n">>
    /\ m_i' = m_i + 1
    /\ UNCHANGED <<m_pc, m_file, m_fill, m_sb, m_value, m_obj, m_products,
                   m_exit, m_why>>
    /\ UNCHANGED notMain

\* loop exit: return 0;
MainReturn0 ==
    /\ m_pc = "loop"
    /\ ~(m_i < m_products.target.len)
    /\ MainReturn(0, "end")
    /\ UNCHANGED <<m_file, m_fill, m_sb, m_value, m_obj, m_products, m_i,
                   m_stdout>>
    /\ UNCHANGED notMain

---------------------------------------------------------------------------
(* Arena of ali.h.  The chain of regions from self->start is a sequence;   *)
(* a region pointer is an index into it, 0 being NULL, and the next link   *)
(* of the last region is NULL.  An AliArena is [regions, end].             *)

ALI_REGION_DEFAULT_CAP == 4096

MaxRegions == 3    \* regions the model lets malloc hand out
MaxAllocs == 4     \* allocations made in one run

ali_region_new(capacity) == [count |-> 0, capacity |-> capacity]

\* ptr = -1 stands for NULL, otherwise the offset of the block in data
ali_region_alloc(self, size) ==
    IF self.count + size >= self.capacity THEN [ptr |-> -1, region |-> self]
    ELSE [ptr |-> self.count, region |-> [self EXCEPT !.count = @ + size]]

ali_arena_reset(self) ==
    [regions |-> [i \in DOMAIN self.regions |-> [self.regions[i] EXCEPT !.count = 0]],
     end |-> IF self.regions = << >> THEN 0 ELSE 1]

ali_arena_mark(self) ==
    [r |-> self.end, count |-> self.regions[self.end].count]

\* for (AliRegion* r = from; r != NULL; r = r->next) r->count = 0;
ZeroCountsFrom(regions, from) ==
    [i \in DOMAIN regions |->
        IF i >= from THEN [regions[i] EXCEPT !.count = 0] ELSE regions[i]]

ali_arena_rollback(self, mark) ==
    IF mark.r = 0 THEN ali_arena_reset(self)
    ELSE LET restored == [self.regions EXCEPT ![mark.r].count = mark.count]
         IN  [regions |-> ZeroCountsFrom(restored, mark.r), end |-> mark.r]

AllocSizes == { 1, 2000, ALI_REGION_DEFAULT_CAP - 1, ALI_REGION_DEFAULT_CAP }

NoMark == [r |-> 0, count |-> 0]

ArenaInit ==
    /\ a_regions = << >>
    /\ a_end = 0
    /\ a_pc = "idle"
    /\ a_size = 0
    /\ a_region = 0
    /\ a_blocks = << >>
    /\ a_nalloc = 0
    /\ a_mark = NoMark
    /\ a_premark = << >>
    /\ a_last = "init"

ArenaOff ==
    /\ a_regions = << >>
    /\ a_end = 0
    /\ a_pc = "off"
    /\ a_size = 0
    /\ a_region = 0
    /\ a_blocks = << >>
    /\ a_nalloc = 0
    /\ a_mark = NoMark
    /\ a_premark = << >>
    /\ a_last = "init"

\* ali_arena_alloc up to the do-while loop
ArenaAllocBegin(size) ==
    /\ a_pc = "idle"
    /\ a_nalloc < MaxAllocs
    /\ a_regions' = IF a_regions = << >>
                    THEN <<ali_region_new(ALI_REGION_DEFAULT_CAP)>> ELSE a_regions
    /\ a_end' = IF a_regions = << >> THEN 1 ELSE a_end
    /\ a_region' = a_end'
    /\ a_size' = size
    /\ a_pc' = "alloc"
    /\ UNCHANGED <<a_blocks, a_nalloc, a_mark, a_premark, a_last>>
    /\ UNCHANGED notArena

\* one iteration of the loop in which ali_region_alloc returns NULL
ArenaAllocNextRegion ==
    /\ a_pc = "alloc"
    /\ ali_region_alloc(a_regions[a_region], a_size).ptr = -1
    /\ IF a_region = Len(a_regions)
       THEN /\ Len(a_regions) < MaxRegions
            /\ a_regions' = Append(a_regions, ali_region_new(ALI_REGION_DEFAULT_CAP))
       ELSE UNCHANGED a_regions
    /\ a_region' = a_region + 1
    /\ UNCHANGED <<a_end, a_pc, a_size, a_blocks, a_nalloc, a_mark, a_premark,
                   a_last>>
    /\ UNCHANGED notArena

\* the iteration in which ali_region_alloc succeeds, and the return
ArenaAllocDone ==
    /\ a_pc = "alloc"
    /\ LET r == ali_region_alloc(a_regions[a_region], a_size)
       IN  /\ r.ptr # -1
           /\ a_regions' = [a_regions EXCEPT ![a_region] = r.region]
           /\ a_blocks' = Append(a_blocks,
                                 [r |-> a_region, off |-> r.ptr, size |-> a_size])
    /\ a_end' = a_region
    /\ a_nalloc' = a_nalloc + 1
    /\ a_pc' = "idle"
    /\ a_last' = IF a_last = "rollback" THEN "realloc" ELSE "alloc"
    /\ UNCHANGED <<a_size, a_region, a_mark, a_premark>>
    /\ UNCHANGED notArena

\* m = ali_arena_mark(self); self->end is dereferenced, NULL in a new arena
ArenaMark ==
    /\ a_pc = "idle"
    /\ IF a_end = 0
       THEN a_pc' = "fault" /\ UNCHANGED <<a_mark, a_premark, a_last>>
       ELSE /\ a_mark' = ali_arena_mark([regions |-> a_regions, end |-> a_end])
            /\ a_premark' = a_blocks
            /\ a_last' = "mark"
            /\ UNCHANGED a_pc
    /\ UNCHANGED <<a_regions, a_end, a_size, a_region, a_blocks, a_nalloc>>
    /\ UNCHANGED notArena

\* ali_arena_rollback(self, m) with the mark held (the zero mark if none)
ArenaRollback ==
    /\ a_pc = "idle"
    /\ LET self == ali_arena_rollback([regions |-> a_regions, end |-> a_end], a_mark)
       IN  /\ a_regions' = self.regions
           /\ a_end' = self.end
    /\ a_blocks' = IF a_mark.r = 0 THEN << >> ELSE a_premark
    /\ a_last' = IF a_mark.r = 0 THEN "reset" ELSE "rollback"
    /\ UNCHANGED <<a_pc, a_size, a_region, a_nalloc, a_mark, a_premark>>
    /\ UNCHANGED notArena

\* ali_arena_reset(self); the caller drops its blocks and its mark
ArenaReset ==
    /\ a_pc = "idle"
    /\ LET self == ali_arena_reset([regions |-> a_regions, end |-> a_end])
       IN  /\ a_regions' = self.regions
           /\ a_end' = self.end
    /\ a_blocks' = << >>
    /\ a_mark' = NoMark
    /\ a_premark' = << >>
    /\ a_last' = "reset"
    /\ UNCHANGED <<a_pc, a_size, a_region, a_nalloc>>
    /\ UNCHANGED notArena

---------------------------------------------------------------------------
(* Bit operations of C on non-negative integers.                           *)

RECURSIVE BitAnd(_, _)
BitAnd(a, b) ==
    IF a = 0 \/ b = 0 THEN 0
    ELSE (a % 2) * (b % 2) + 2 * BitAnd(a \div 2, b \div 2)

RECURSIVE BitOr(_, _)
BitOr(a, b) ==
    IF a = 0 THEN b
    ELSE IF b = 0 THEN a
    ELSE (IF a % 2 = 1 \/ b % 2 = 1 THEN 1 ELSE 0) + 2 * BitOr(a \div 2, b \div 2)

Shl(a, n) == a * 2^n
Shr(a, n) == a \div 2^n

\* conversion to uint8_t
U8(x) == x % 256

\* (ali_utf8codepoint) -1, that is 0xFFFFFFFF; every other value the decoder
\* computes is below 2^23, so no conversion to uint32_t changes it
InvalidCodepoint == -1

---------------------------------------------------------------------------
(* UTF-8 of ali.h.  The static buffer utf8[5] of ali_codepoint_to_utf8 is  *)
(* a sequence of five bytes (utf8[0] is element 1); it keeps the bytes of  *)
(* earlier calls behind the terminator.                                    *)

MaxCodepoint == 1114111     \* 0x10FFFF

ali_codepoint_is_valid(codepoint) == ~(codepoint > MaxCodepoint)

ali_codepoint_size(codepoint) ==
    IF codepoint > MaxCodepoint THEN 0
    ELSE IF codepoint > 65535 THEN 4
    ELSE IF codepoint > 2047 THEN 3
    ELSE IF codepoint > 127 THEN 2
    ELSE 1

\* utf8[i] = byte, i counted from 0 as in C
SetByte(utf8, i, byte) == [utf8 EXCEPT ![i + 1] = U8(byte)]

\* returns [ptr, utf8]: the pointer returned and the static buffer afterwards
ali_codepoint_to_utf8(utf8, codepoint) ==
    LET codepoint_size == ali_codepoint_size(codepoint)
        b4 == SetByte(SetByte(SetByte(SetByte(utf8,
                  0, BitOr(240, BitAnd(Shr(codepoint, 18), 7))),
                  1, BitOr(128, BitAnd(Shr(codepoint, 12), 63))),
                  2, BitOr(128, BitAnd(Shr(codepoint, 6), 63))),
                  3, BitOr(128, BitAnd(Shr(codepoint, 0), 63)))
        b3 == SetByte(SetByte(SetByte(utf8,
                  0, BitOr(224, BitAnd(Shr(codepoint, 12), 15))),
                  1, BitOr(128, BitAnd(Shr(codepoint, 6), 63))),
                  2, BitOr(128, BitAnd(Shr(codepoint, 0), 63)))
        b2 == SetByte(SetByte(utf8,
                  0, BitOr(192, BitAnd(Shr(codepoint, 6), 31))),
                  1, BitOr(128, BitAnd(Shr(codepoint, 0), 63)))
        b1 == SetByte(utf8, 0, codepoint)
    IN  IF codepoint_size = 4
        THEN [ptr |-> "utf8", utf8 |-> SetByte(b4, codepoint_size, 0)]
        ELSE IF codepoint_size = 3
        THEN [ptr |-> "utf8", utf8 |-> SetByte(b3, codepoint_size, 0)]
        ELSE IF codepoint_size = 2
        THEN [ptr |-> "utf8", utf8 |-> SetByte(b2, codepoint_size, 0)]
        ELSE IF codepoint_size = 1
        THEN [ptr |-> "utf8", utf8 |-> SetByte(b1, codepoint_size, 0)]
        ELSE [ptr |-> "NULL", utf8 |-> utf8]

\* ali_utf8c_to_codepoint(utf8c, &size) with *codepoint_size = size before the
\* call; returns [codepoint, codepoint_size]
ali_utf8c_to_codepoint(utf8c, size) ==
    IF BitAnd(utf8c[1], 128) = 0
    THEN [codepoint |-> utf8c[1], codepoint_size |-> 1]
    ELSE IF BitAnd(utf8c[1], 224) = 192
    THEN [codepoint |-> (BitOr(Shl(BitAnd(utf8c[1], 31), 6),
                                  Shl(BitAnd(utf8c[2], 63), 0))),
          codepoint_size |-> 2]
    ELSE IF BitAnd(utf8c[1], 240) = 224
    THEN [codepoint |-> (BitOr(BitOr(Shl(BitAnd(utf8c[1], 31), 12),
                                        Shl(BitAnd(utf8c[2], 63), 6)),
                                  Shl(BitAnd(utf8c[3], 63), 0))),
          codepoint_size |-> 3]
    ELSE IF BitAnd(utf8c[1], 248) = 240
    THEN [codepoint |-> (BitOr(BitOr(BitOr(Shl(BitAnd(utf8c[1], 31), 18),
                                              Shl(BitAnd(utf8c[2], 63), 12)),
                                        Shl(BitAnd(utf8c[3], 63), 6)),
                                  Shl(BitAnd(utf8c[4], 63), 0))),
          codepoint_size |-> 4]
    ELSE [codepoint |-> InvalidCodepoint, codepoint_size |-> size]

\* codepoints given to the encoder: the ends of the four size classes, the
\* values next to them, and the first value that is not a codepoint
CodepointSpan == 3
CodepointEdges == { 0, 65, 127, 2047, 65535, 262143, MaxCodepoint }
Codepoints ==
    { c \in UNION { (e - CodepointSpan)..(e + CodepointSpan) : e \in CodepointEdges } :
        c >= 0 /\ c <= MaxCodepoint + 1 }

NoDecode == [codepoint |-> 0, codepoint_size |-> 0]

Utf8Init ==
    /\ u_pc = "idle"
    /\ u_utf8 = <<0, 0, 0, 0, 0>>
    /\ u_cp = 0
    /\ u_ptr = "NULL"
    /\ u_dec = NoDecode

Utf8Off ==
    /\ u_pc = "off"
    /\ u_utf8 = <<0, 0, 0, 0, 0>>
    /\ u_cp = 0
    /\ u_ptr = "NULL"
    /\ u_dec = NoDecode

\* p = ali_codepoint_to_utf8(cp);
Utf8Encode(cp) ==
    /\ u_pc \in {"idle", "encoded", "decoded"}
    /\ LET r == ali_codepoint_to_utf8(u_utf8, cp)
       IN  /\ u_utf8' = r.utf8
           /\ u_ptr' = r.ptr
    /\ u_cp' = cp
    /\ u_dec' = NoDecode
    /\ u_pc' = "encoded"
    /\ UNCHANGED notUtf8

\* size_t size = 0; c = ali_utf8c_to_codepoint(p, &size); for a p that is
\* not NULL
Utf8Decode ==
    /\ u_pc = "encoded"
    /\ u_ptr = "utf8"
    /\ u_dec' = ali_utf8c_to_codepoint(u_utf8, 0)
    /\ u_pc' = "decoded"
    /\ UNCHANGED <<u_utf8, u_cp, u_ptr>>
    /\ UNCHANGED notUtf8

---------------------------------------------------------------------------
(* String view of ali.h.  An AliSv is [start, len]; start is an offset     *)
(* into the memory the view was made from, so *self->start is              *)
(* mem[start + 1].                                                         *)

ali_sv_from_cstr(cstr) == [start |-> 0, len |-> Len(CStr(cstr))]

ali_sv_step(self) ==
    IF self.len = 0 THEN self
    ELSE [start |-> self.start + 1, len |-> self.len - 1]

\* the characters a view holds
SvText(mem, sv) == SubSeq(mem, sv.start + 1, sv.start + sv.len)

\* while (*self->start != c) { ali_sv_step(self); if (self->len == 0) break; }
RECURSIVE SvChopLoop(_, _, _)
SvChopLoop(mem, self, c) ==
    IF self.start >= Len(mem) THEN [fault |-> TRUE, self |-> self]
    ELSE IF mem[self.start + 1] # c
    THEN LET stepped == ali_sv_step(self)
         IN  IF stepped.len = 0 THEN [fault |-> FALSE, self |-> stepped]
             ELSE SvChopLoop(mem, stepped, c)
    ELSE [fault |-> FALSE, self |-> self]

\* returns [fault, self, chopped]: *self afterwards and the slice returned
ali_sv_chop_by_c(mem, self, c) ==
    LET loop == SvChopLoop(mem, self, c)
        after == ali_sv_step(loop.self)
    IN  [fault |-> loop.fault,
         self |-> after,
         chopped |-> [start |-> self.start, len |-> after.start - self.start]]

SvMaxLen == 5      \* longest text a view is made from
MaxChops == 4      \* chops made on one view

SvChars == { "a", "b", "c", "," }
SvSeparators == { ",", "b" }

SvTexts == UNION { [1..n -> SvChars] : n \in 0..SvMaxLen }

SvInit ==
    /\ s_mem \in { t \o <<NUL>> : t \in SvTexts }
    /\ s_self = ali_sv_from_cstr(s_mem)
    /\ s_out = << >>

SvOff ==
    /\ s_mem = << >>
    /\ s_self = [start |-> 0, len |-> 0]
    /\ s_out = << >>

\* chopped = ali_sv_chop_by_c(&self, c);
SvChop(c) ==
    /\ Len(s_out) < MaxChops
    /\ s_mem # << >>
    /\ \A i \in DOMAIN s_out : ~s_out[i].fault
    /\ LET r == ali_sv_chop_by_c(s_mem, s_self, c)
       IN  /\ s_self' = r.self
           /\ s_out' = Append(s_out, [c |-> c, before |-> s_self,
                                      chopped |-> r.chopped, fault |-> r.fault])
    /\ UNCHANGED s_mem
    /\ UNCHANGED notSv

---------------------------------------------------------------------------
(* Dynamic array of ali.h.  The handle `da` points behind an AliDaHeader;  *)
(* handle and header together are [isnull, count, capacity, data], data    *)
(* being the `capacity` slots of the allocation (da[i] is data[i + 1]).    *)

\* size_t arithmetic wraps; the model keeps it modulo 2^30 instead of 2^64
\* (no value other than a wrapped one comes near either bound)
SizeModulus == 1073741824
SizeT(x) == x % SizeModulus

\* what a slot holds before it is written
Uninit == -1

NullDa == [isnull |-> TRUE, count |-> 0, capacity |-> 0, data |-> << >>]

ali_da_new_header_with_size(init_capacity) ==
    [isnull |-> FALSE, count |-> 0, capacity |-> init_capacity,
     data |-> Fill(init_capacity, Uninit)]

ali_da_get_header_with_size(da) ==
    IF da.isnull THEN ali_da_new_header_with_size(ALI_DA_DEFAULT_INIT_CAPACITY)
    ELSE da

\* the while loop of ali_da_maybe_resize_with_size: the capacity it settles on
RECURSIVE DaGrow(_, _, _)
DaGrow(count, to_add, capacity) ==
    IF SizeT(count + to_add) >= capacity
    THEN DaGrow(count, to_add,
                IF capacity = 0 THEN ALI_DA_DEFAULT_INIT_CAPACITY ELSE capacity * 2)
    ELSE capacity

ali_da_maybe_resize_with_size(da, to_add) ==
    LET h == ali_da_get_header_with_size(da)
    IN  IF SizeT(h.count + to_add) >= h.capacity
        THEN LET capacity == DaGrow(h.count, to_add, h.capacity)
             IN  [h EXCEPT !.capacity = capacity,
                           !.data = Realloc(h.data, capacity, Uninit)]
        ELSE h

ali_da_getlen(da) == IF da.isnull THEN 0 ELSE ali_da_get_header_with_size(da).count

\* the operations return [fault, da]; fault: a slot outside the allocation
\* was read or written

\* da = ali_da_maybe_resize(da, 1), da[header->count++] = item
ali_da_append(da, item) ==
    LET h == ali_da_maybe_resize_with_size(da, 1)
    IN  IF h.count >= h.capacity
        THEN [fault |-> TRUE, da |-> [h EXCEPT !.count = SizeT(@ + 1)]]
        ELSE [fault |-> FALSE,
              da |-> [h EXCEPT !.data[h.count + 1] = item, !.count = SizeT(@ + 1)]]

\* header->count = 0 (ALI_ASSERT(da != NULL) is the caller's guard)
ali_da_reset(da) == [fault |-> FALSE, da |-> [da EXCEPT !.count = 0]]

\* faulty variant of ali_da_remove_unordered: the first element is moved in
ali_da_remove_unordered_First(da, i) ==
    [fault |-> FALSE,
     da |-> [da EXCEPT !.count = SizeT(@ - 1), !.data[i + 1] = da.data[1]]]

\* da[i] = da[--header->count]
ali_da_remove_unordered(da, i) ==
    LET count == SizeT(da.count - 1)
    IN  IF count >= da.capacity \/ i >= da.capacity
        THEN [fault |-> TRUE, da |-> [da EXCEPT !.count = count]]
        ELSE [fault |-> FALSE,
              da |-> [da EXCEPT !.count = count, !.data[i + 1] = da.data[count + 1]]]

\* memmove(da + i, da + i + 1, (header->count - i - 1) * sizeof(*da)),
\* header->count--
ali_da_remove_ordered(da, i) ==
    LET n == SizeT(da.count - i - 1)
    IN  IF n > da.capacity \/ i + 1 + n > da.capacity
        THEN [fault |-> TRUE, da |-> [da EXCEPT !.count = SizeT(@ - 1)]]
        ELSE [fault |-> FALSE,
              da |-> [da EXCEPT
                        !.count = SizeT(@ - 1),
                        !.data = [k \in DOMAIN da.data |->
                                    IF k - 1 >= i /\ k - 1 < i + n
                                    THEN da.data[k + 1] ELSE da.data[k]]]]

MaxAppends == 10   \* appends made in one run
MaxRemoves == 2    \* removals made in one run

NoDaOp == [op |-> "none", i |-> 0, before |-> NullDa]

DaInit ==
    /\ d_da = NullDa
    /\ d_pc = "run"
    /\ d_nappend = 0
    /\ d_nremove = 0
    /\ d_grown = TRUE
    /\ d_last = NoDaOp

DaOff ==
    /\ d_da = NullDa
    /\ d_pc = "off"
    /\ d_nappend = 0
    /\ d_nremove = 0
    /\ d_grown = TRUE
    /\ d_last = NoDaOp

\* the state after an operation that returned r
DaDone(op, i, r) ==
    /\ d_da' = r.da
    /\ d_pc' = IF r.fault THEN "fault" ELSE "run"
    /\ d_last' = [op |-> op, i |-> i, before |-> d_da]

\* ali_da_append(da, item); the items are 1, 2, 3, ...
DaAppend ==
    /\ d_pc = "run"
    /\ d_nappend < MaxAppends
    /\ DaDone("append", 0, ali_da_append(d_da, d_nappend + 1))
    /\ d_nappend' = d_nappend + 1
    /\ UNCHANGED <<d_nremove, d_grown>>
    /\ UNCHANGED notDa

\* ali_da_reset(da);
DaReset ==
    /\ d_pc = "run"
    /\ ~d_da.isnull
    /\ d_last.op # "reset"
    /\ DaDone("reset", 0, ali_da_reset(d_da))
    /\ d_grown' = FALSE
    /\ UNCHANGED <<d_nappend, d_nremove>>
    /\ UNCHANGED notDa

\* ali_da_remove_unordered(da, i); i below the length, or 0 on an empty array
DaRemoveUnordered(i) ==
    /\ d_pc = "run"
    /\ ~d_da.isnull
    /\ d_nremove < MaxRemoves
    /\ i < d_da.count \/ i = 0
    /\ DaDone("remove_unordered", i, ali_da_remove_unordered(d_da, i))
    /\ d_nremove' = d_nremove + 1
    /\ d_grown' = FALSE
    /\ UNCHANGED d_nappend
    /\ UNCHANGED notDa

\* ali_da_remove_ordered(da, i); i below the length, or 0 on an empty array
DaRemoveOrdered(i) ==
    /\ d_pc = "run"
    /\ ~d_da.isnull
    /\ d_nremove < MaxRemoves
    /\ i < d_da.count \/ i = 0
    /\ DaDone("remove_ordered", i, ali_da_remove_ordered(d_da, i))
    /\ d_nremove' = d_nremove + 1
    /\ d_grown' = FALSE
    /\ UNCHANGED d_nappend
    /\ UNCHANGED notDa

---------------------------------------------------------------------------
(* Log of ali.h.  The sink is the sequence of lines written to             *)
(* ali_global_logfile; a line is the sequence of the texts printed.        *)

LOG_INFO == 0
LOG_WARN == 1
LOG_ERROR == 2
LogLevels == { LOG_INFO, LOG_WARN, LOG_ERROR }

loglevel_to_str(level) ==
    IF level = LOG_INFO THEN "INFO"
    ELSE IF level = LOG_WARN THEN "WARN"
    ELSE "ERROR"

\* "[%s] ", the formatted message, "\n"
LogLine(level, msg) == <<"[", loglevel_to_str(level), "] ", msg, "\n">>

\* returns the globals afterwards: [logfile, sink]
ali_log_log(loglevel, logfile, sink, level, msg) ==
    [logfile |-> IF logfile = "NULL" THEN "stdout" ELSE logfile,
     sink |-> IF loglevel >= level THEN Append(sink, LogLine(level, msg))
              ELSE sink]

MaxLines == 3      \* lines one run writes to the sink

LogMessages == { "m1", "m2" }

NoLogCall == [level |-> LOG_INFO, msg |-> "", before |-> << >>, called |-> FALSE]

LogInit ==
    /\ l_loglevel = LOG_INFO
    /\ l_logfile = "NULL"
    /\ l_sink = << >>
    /\ l_last = NoLogCall

LogOff ==
    /\ l_loglevel = LOG_INFO
    /\ l_logfile = "off"
    /\ l_sink = << >>
    /\ l_last = NoLogCall

\* ali_log_log(level, "%s", msg);
LogLog(level, msg) ==
    /\ l_logfile # "off"
    /\ Len(l_sink) < MaxLines
    /\ LET r == ali_log_log(l_loglevel, l_logfile, l_sink, level, msg)
       IN  /\ l_logfile' = r.logfile
           /\ l_sink' = r.sink
    /\ l_last' = [level |-> level, msg |-> msg, before |-> l_sink, called |-> TRUE]
    /\ UNCHANGED l_loglevel
    /\ UNCHANGED notLog

\* ali_global_loglevel = level;
LogSetLevel(level) ==
    /\ l_logfile # "off"
    /\ level # l_loglevel
    /\ l_loglevel' = level
    /\ l_last' = [l_last EXCEPT !.called = FALSE]
    /\ UNCHANGED <<l_logfile, l_sink>>
    /\ UNCHANGED notLog

---------------------------------------------------------------------------
(* Temp allocator of ali.h: a static buffer of ALI_TEMP_BUF_SIZE bytes and *)
(* the offset ali_temp_buffer_size.  A pointer is an offset into the       *)
(* buffer, -1 when the call did not return.                                *)

ALI_TEMP_BUF_SIZE == 8388608     \* 8 << 20

\* faulty variant of ali_temp_alloc: the assertion lets the offset reach the
\* size of the buffer
ali_temp_alloc_Inclusive(buffer_size, size) ==
    IF ~(SizeT(buffer_size + size) <= ALI_TEMP_BUF_SIZE)
    THEN [abort |-> TRUE, ptr |-> -1, buffer_size |-> buffer_size]
    ELSE [abort |-> FALSE, ptr |-> buffer_size,
          buffer_size |-> SizeT(buffer_size + size)]

\* returns [abort, ptr, buffer_size]; abort: ALI_ASSERT failed
ali_temp_alloc(buffer_size, size) ==
    IF ~(SizeT(buffer_size + size) < ALI_TEMP_BUF_SIZE)
    THEN [abort |-> TRUE, ptr |-> -1, buffer_size |-> buffer_size]
    ELSE [abort |-> FALSE, ptr |-> buffer_size,
          buffer_size |-> SizeT(buffer_size + size)]

ali_temp_stamp(buffer_size) == buffer_size

ali_temp_rewind(stamp) == stamp

ali_temp_reset == 0

MaxTempAllocs == 3     \* allocations made in one run
MaxStamps == 2         \* stamps the caller keeps

\* sizes asked for: small ones, ones that fill the buffer to its last bytes,
\* and ones so large that offset + size wraps
TempSizes ==
    { 0, 1, 4096, ALI_TEMP_BUF_SIZE - 4097, ALI_TEMP_BUF_SIZE - 1,
      ALI_TEMP_BUF_SIZE, SizeModulus - 4096, SizeModulus - 1 }

NoTempOp == [op |-> "none", arg |-> 0, before |-> 0, ptr |-> -1]

TempInit ==
    /\ t_size = 0
    /\ t_pc = "run"
    /\ t_stamps = {}
    /\ t_nalloc = 0
    /\ t_last = NoTempOp

TempOff ==
    /\ t_size = 0
    /\ t_pc = "off"
    /\ t_stamps = {}
    /\ t_nalloc = 0
    /\ t_last = NoTempOp

\* ptr = ali_temp_alloc(size);
TempAlloc(size) ==
    /\ t_pc = "run"
    /\ t_nalloc < MaxTempAllocs
    /\ LET r == ali_temp_alloc(t_size, size)
       IN  /\ t_size' = r.buffer_size
           /\ t_pc' = IF r.abort THEN "abort" ELSE "run"
           /\ t_last' = [op |-> "alloc", arg |-> size, before |-> t_size,
                         ptr |-> r.ptr]
    /\ t_nalloc' = t_nalloc + 1
    /\ UNCHANGED t_stamps
    /\ UNCHANGED notTemp

\* stamp = ali_temp_stamp();
TempStamp ==
    /\ t_pc = "run"
    /\ Cardinality(t_stamps) < MaxStamps
    /\ ali_temp_stamp(t_size) \notin t_stamps
    /\ t_stamps' = t_stamps \cup { ali_temp_stamp(t_size) }
    /\ t_last' = [op |-> "stamp", arg |-> 0, before |-> t_size, ptr |-> -1]
    /\ UNCHANGED <<t_size, t_pc, t_nalloc>>
    /\ UNCHANGED notTemp

\* ali_temp_rewind(stamp); for a stamp ali_temp_stamp has returned
TempRewind ==
    /\ t_pc = "run"
    /\ \E stamp \in t_stamps :
          /\ t_size' = ali_temp_rewind(stamp)
          /\ t_last' = [op |-> "rewind", arg |-> stamp, before |-> t_size,
                        ptr |-> -1]
    /\ UNCHANGED <<t_pc, t_stamps, t_nalloc>>
    /\ UNCHANGED notTemp

\* ali_temp_reset();
TempReset ==
    /\ t_pc = "run"
    /\ t_last.op # "reset"
    /\ t_size' = ali_temp_reset
    /\ t_last' = [op |-> "reset", arg |-> 0, before |-> t_size, ptr |-> -1]
    /\ UNCHANGED <<t_pc, t_stamps, t_nalloc>>
    /\ UNCHANGED notTemp

---------------------------------------------------------------------------
(* String builder of ali.h: ali_sb_push_strs, ali_sb_push_sprintf and      *)
(* ali_sb_free.  A format string is a sequence of characters and "%s"      *)
(* directives, its arguments a sequence of strings.                        *)

\* what vasprintf writes for fmt and args
RECURSIVE Format(_, _)
Format(fmt, args) ==
    IF fmt = << >> THEN << >>
    ELSE IF Head(fmt) = "%s"
         THEN Head(args) \o Format(Tail(fmt), Tail(args))
         ELSE <<Head(fmt)>> \o Format(Tail(fmt), args)

\* vasprintf(&str, fmt, args): the string allocated and the number of bytes
\* printed
vasprintf(fmt, args) ==
    LET str == Format(fmt, args) IN [str |-> str, ret |-> Len(str)]

\* ali_sb_push_strs_null(self, strs..., NULL)
RECURSIVE ali_sb_push_strs_null(_, _, _)
ali_sb_push_strs_null(self, strs, fill) ==
    IF strs = << >> THEN self
    ELSE LET str == Head(strs)
             n == Len(str)
             grown == ali_sb_maybe_resize(self, n, fill)
             pushed == [grown EXCEPT
                          !.data = SubSeq(@, 1, grown.count) \o str
                                   \o SubSeq(@, grown.count + n + 1, grown.capacity),
                          !.count = @ + n]
         IN  ali_sb_push_strs_null(pushed, Tail(strs), fill)

\* returns [abort, self]; abort: ALI_ASSERT failed
ali_sb_push_sprintf(self, fmt, args, fill) ==
    LET r == vasprintf(fmt, args)
    IN  IF ~(r.ret = 0)
        THEN [abort |-> TRUE, self |-> self]
        ELSE [abort |-> FALSE, self |-> ali_sb_push_strs_null(self, <<r.str>>, fill)]

ali_sb_free(self) == [data |-> << >>, count |-> 0, capacity |-> 0]

MaxPushes == 3         \* push calls made in one run

SbStrings == { << >>, <<"a">>, <<"b", "c">>, <<"d", "e", "f", "g", "h">> }

\* formats with the arguments they take
SbFormats ==
    { [fmt |-> << >>, args |-> << >>],
      [fmt |-> <<"x">>, args |-> << >>],
      [fmt |-> <<"x", "=", "y">>, args |-> << >>] }
    \cup { [fmt |-> <<"%s">>, args |-> <<s>>] : s \in SbStrings }
    \cup { [fmt |-> <<"n", "%s", "%s">>, args |-> <<s, t>>] :
             s \in { << >>, <<"a">> }, t \in { << >>, <<"b", "c">> } }
    \cup { [fmt |-> <<"%s", "%s">>, args |-> <<s, s>>] : s \in { << >>, <<"a">> } }

NoSbCall == [op |-> "none", text |-> << >>, before |-> EmptySb]

SbInit ==
    /\ b_sb = EmptySb
    /\ b_fill \in FillBytes
    /\ b_pc = "run"
    /\ b_npush = 0
    /\ b_last = NoSbCall

SbOff ==
    /\ b_sb = EmptySb
    /\ b_fill = NUL
    /\ b_pc = "off"
    /\ b_npush = 0
    /\ b_last = NoSbCall

\* ali_sb_push_strs(&sb, s, t);
SbPushStrs(s, t) ==
    /\ b_pc = "run"
    /\ b_npush < MaxPushes
    /\ b_sb' = ali_sb_push_strs_null(b_sb, <<s, t>>, b_fill)
    /\ b_npush' = b_npush + 1
    /\ b_last' = [op |-> "strs", text |-> s \o t, before |-> b_sb]
    /\ UNCHANGED <<b_fill, b_pc>>
    /\ UNCHANGED notSb

\* ali_sb_push_sprintf(&sb, fmt, args...);
SbPushSprintf(f) ==
    /\ b_pc = "run"
    /\ b_npush < MaxPushes
    /\ LET r == ali_sb_push_sprintf(b_sb, f.fmt, f.args, b_fill)
       IN  /\ b_sb' = r.self
           /\ b_pc' = IF r.abort THEN "abort" ELSE "run"
    /\ b_npush' = b_npush + 1
    /\ b_last' = [op |-> "sprintf", text |-> Format(f.fmt, f.args), before |-> b_sb]
    /\ UNCHANGED b_fill
    /\ UNCHANGED notSb

\* ali_sb_free(&sb);
SbFree ==
    /\ b_pc = "run"
    /\ b_sb.capacity > 0
    /\ b_sb' = ali_sb_free(b_sb)
    /\ b_last' = [op |-> "free", text |-> << >>, before |-> b_sb]
    /\ UNCHANGED <<b_fill, b_pc, b_npush>>
    /\ UNCHANGED notSb

---------------------------------------------------------------------------
(* ali_utf8len of ali.h, one action per iteration of its loop.  The bytes  *)
(* are a sequence that ends with 0; a read behind it is a fault.           *)

\* the body of the loop with utf8 at offset `utf8` of mem: codepoint_size is
\* set to 0 and handed to ali_utf8c_to_codepoint, which reads up to four
\* bytes from there (those behind mem are read as 0 here and reported as a
\* fault by the caller)
Utf8LenBody(mem, utf8, len) ==
    LET codepoint_size ==
            ali_utf8c_to_codepoint(SubSeq(mem, utf8 + 1, Len(mem)) \o <<0, 0, 0>>,
                                   0).codepoint_size
    IN  [utf8 |-> utf8 + codepoint_size, len |-> len + 1,
         fault |-> utf8 + codepoint_size > Len(mem)]

MaxBytes == 3          \* bytes in front of the terminating 0
MaxIterations == 4     \* iterations of the loop followed in one run

\* ASCII, continuation bytes, lead bytes of 2, 3 and 4 byte sequences, and
\* bytes that are no lead byte
Utf8Bytes == { 65, 128, 191, 195, 226, 240, 248, 255 }

Utf8Strings ==
    { s \o <<0>> : s \in UNION { [1..n -> Utf8Bytes] : n \in 0..MaxBytes } }

LenInit ==
    /\ n_mem \in Utf8Strings
    /\ n_utf8 = 0
    /\ n_len = 0
    /\ n_pc = "loop"
    /\ n_prev = -1

LenOff ==
    /\ n_mem = << >>
    /\ n_utf8 = 0
    /\ n_len = 0
    /\ n_pc = "off"
    /\ n_prev = -1

\* while (*utf8 != 0) { ... }: one iteration
Utf8LenIterate ==
    /\ n_pc = "loop"
    /\ n_len < MaxIterations
    /\ n_mem[n_utf8 + 1] # 0
    /\ LET r == Utf8LenBody(n_mem, n_utf8, n_len)
       IN  /\ n_utf8' = r.utf8
           /\ n_len' = r.len
           /\ n_pc' = IF r.fault \/ r.utf8 >= Len(n_mem) THEN "fault" ELSE "loop"
    /\ n_prev' = n_utf8
    /\ UNCHANGED n_mem
    /\ UNCHANGED notLen

\* *utf8 == 0: return len;
Utf8LenReturn ==
    /\ n_pc = "loop"
    /\ n_mem[n_utf8 + 1] = 0
    /\ n_pc' = "returned"
    /\ UNCHANGED <<n_mem, n_utf8, n_len, n_prev>>
    /\ UNCHANGED notLen

---------------------------------------------------------------------------
(* Specifications, one per component.                                      *)

\* the components of ali.h other than the arena, and the JSON components,
\* not in use
AliOff == Utf8Off /\ SvOff /\ DaOff /\ LogOff /\ TempOff /\ SbOff /\ LenOff
JsonOff == ParseOff /\ ValueOff /\ MainOff /\ ArenaOff

ParseNext ==
    \/ Parse
    \/ \E input \in FollowInputs, tail \in Tails : ParseAgain(input, tail)
    \/ \E key \in LookupKeys : FindKey(key)
    \/ \E index \in 0..MaxItems : GetItem(index)

InitParse == ParseInit /\ ValueOff /\ MainOff /\ ArenaOff /\ AliOff
SpecParse == InitParse /\ [][ParseNext]_vars

ValueNext ==
    \/ \E value \in ItemValues : ArrayAppend(value)
    \/ \E key \in ItemKeys, value \in ItemValues : ObjectAppend(key, value)
    \/ \E index \in 0..(MaxLen + 1) : ArrayGetItem(index)
    \/ \E index \in 0..(MaxLen + 1) : ObjectGetItem(index)
    \/ \E key \in FindKeys : ObjectFindValue(key)
    \/ ArrayStringify
    \/ ObjectStringify

InitValue == ParseOff /\ ValueInit /\ MainOff /\ ArenaOff /\ AliOff
SpecValue == InitValue /\ [][ValueNext]_vars

MainNext ==
    \/ MainRead
    \/ MainParse
    \/ MainAsObject
    \/ MainFind
    \/ MainAsArray
    \/ MainPrint
    \/ MainReturn0

InitMain == ParseOff /\ ValueOff /\ MainInit /\ ArenaOff /\ AliOff
SpecMain == InitMain /\ [][MainNext]_vars

ArenaNext ==
    \/ \E size \in AllocSizes : ArenaAllocBegin(size)
    \/ ArenaAllocNextRegion
    \/ ArenaAllocDone
    \/ ArenaMark
    \/ ArenaRollback
    \/ ArenaReset

InitArena == ParseOff /\ ValueOff /\ MainOff /\ ArenaInit /\ AliOff
SpecArena == InitArena /\ [][ArenaNext]_vars


Utf8Next ==
    \/ \E cp \in Codepoints : Utf8Encode(cp)
    \/ Utf8Decode

InitUtf8 == JsonOff /\ Utf8Init /\ SvOff /\ DaOff /\ LogOff /\ TempOff /\ SbOff /\ LenOff
SpecUtf8 == InitUtf8 /\ [][Utf8Next]_vars


SvNext == \E c \in SvSeparators : SvChop(c)

InitSv == JsonOff /\ Utf8Off /\ SvInit /\ DaOff /\ LogOff /\ TempOff /\ SbOff /\ LenOff
SpecSv == InitSv /\ [][SvNext]_vars


DaNext ==
    \/ DaAppend
    \/ DaReset
    \/ \E i \in 0..MaxAppends : DaRemoveUnordered(i)
    \/ \E i \in 0..MaxAppends : DaRemoveOrdered(i)

InitDa == JsonOff /\ Utf8Off /\ SvOff /\ DaInit /\ LogOff /\ TempOff /\ SbOff /\ LenOff
SpecDa == InitDa /\ [][DaNext]_vars


LogNext ==
    \/ \E level \in LogLevels, msg \in LogMessages : LogLog(level, msg)
    \/ \E level \in LogLevels : LogSetLevel(level)

InitLog == JsonOff /\ Utf8Off /\ SvOff /\ DaOff /\ LogInit /\ TempOff /\ SbOff /\ LenOff
SpecLog == InitLog /\ [][LogNext]_vars


TempNext ==
    \/ \E size \in TempSizes : TempAlloc(size)
    \/ TempStamp
    \/ TempRewind
    \/ TempReset

InitTemp == JsonOff /\ Utf8Off /\ SvOff /\ DaOff /\ LogOff /\ TempInit /\ SbOff /\ LenOff
SpecTemp == InitTemp /\ [][TempNext]_vars


SbNext ==
    \/ \E s \in SbStrings, t \in SbStrings : SbPushStrs(s, t)
    \/ \E f \in SbFormats : SbPushSprintf(f)
    \/ SbFree

InitSb == JsonOff /\ Utf8Off /\ SvOff /\ DaOff /\ LogOff /\ TempOff /\ SbInit /\ LenOff
SpecSb == InitSb /\ [][SbNext]_vars


LenNext ==
    \/ Utf8LenIterate
    \/ Utf8LenReturn

InitLen == JsonOff /\ Utf8Off /\ SvOff /\ DaOff /\ LogOff /\ TempOff /\ SbOff /\ LenInit
SpecLen == InitLen /\ [][LenNext]_vars


---------------------------------------------------------------------------
(* Claims about the parser, checked under SpecParse.                       *)

Parsed == p_pc # "start"

\* C1: an object whose first item has a boolean literal as value and is
\* followed by further items ({"a": true, "b": "hi"}) parses successfully
\* and holds every item: key a maps to the boolean of the literal, key b to
\* the value written after it.
C1_BoolFirstObjectParses ==
    (Parsed /\ p_input.family = "boolfirst") =>
        /\ p_result.status = "true"
        /\ json_value_as_object(p_result.value) # NULL
        /\ LET object == json_value_as_object(p_result.value).target
               a == json_object_find_value(object, <<"a">>)
               b == json_object_find_value(object, <<"b">>)
           IN  /\ object.len = 2
               /\ a # NULL
               /\ json_value_as_boolean(a.target) # NULL
               /\ ReadBoolean(a.target.as) = p_input.expect.a
               /\ b = AddrOf(p_input.expect.b)

\* C2: the texts [] and {} parse successfully, to an array of length 0 and
\* to an object of length 0.
C2_EmptyCollectionsParse ==
    (Parsed /\ p_input.family = "empty") =>
        /\ p_result.status = "true"
        /\ p_result.value.type = p_input.expect.type
        /\ p_result.value.as.len = 0

\* C3: a literal that begins with t or f parses to a value tagged boolean
\* (json_value_as_boolean returns its payload) whose payload is true exactly
\* when the literal is the text true.
C3_BooleanLiteralTagAndPayload ==
    (Parsed /\ p_input.family = "boollit") =>
        /\ p_result.status = "true"
        /\ json_value_as_boolean(p_result.value) # NULL
        /\ ReadBoolean(p_result.value.as) = p_input.expect.istrue

\* C4: {"k": [n1, ..., nm]} with m >= 1 unsigned decimal numbers parses
\* successfully to an object whose key k maps to an array of length m whose
\* i-th item is a number-tagged value equal to the i-th number of the text.
C4_NumberArrayParses ==
    (p_input.family = "numarr") =>
        /\ Parsed =>
              /\ p_result.status = "true"
              /\ json_value_as_object(p_result.value) # NULL
              /\ json_value_as_object(p_result.value).target.len = 1
        /\ (p_pc \in {"found", "item"} /\ p_lookup.key = <<"k">>) =>
              /\ p_lookup.found # NULL
              /\ json_value_as_array(p_lookup.found.target) # NULL
              /\ json_value_as_array(p_lookup.found.target).target.len
                    = Len(p_input.expect.numbers)
        /\ (p_pc = "item" /\ p_lookup.key = <<"k">>
                /\ p_lookup.index < Len(p_input.expect.numbers)) =>
              /\ p_lookup.item # NULL
              /\ json_value_as_number(p_lookup.item.target) # NULL
              /\ json_value_as_number(p_lookup.item.target).target.number
                    = p_input.expect.numbers[p_lookup.index + 1]

\* a three-number array whose last item was fetched and differs from the first
C4_Witness ==
    /\ p_input.family = "numarr"
    /\ p_pc = "item"
    /\ p_lookup.key = <<"k">>
    /\ Len(p_input.expect.numbers) = 3
    /\ p_lookup.index = 2
    /\ p_input.expect.numbers[1] # p_input.expect.numbers[3]
    /\ p_lookup.item = AddrOf(json_value_number(p_input.expect.numbers[3]))

\* C5: whitespace inserted between any two tokens of a text the parser
\* accepts still parses successfully and yields the same value tree.
C5_WhitespaceBetweenTokens ==
    (Parsed /\ p_input.family = "ws") =>
        LET base == ParseText(p_input.expect.base, p_tail, p_arena0)
        IN  /\ base.status = "true"
            /\ p_result.status = "true"
            /\ p_result.value = base.value

---------------------------------------------------------------------------
(* Claims about the value model and the serializer, checked under          *)
(* SpecValue.                                                              *)

\* the index-th appended value of a list, absent when out of range
NthValue(as, index) ==
    IF index < as.len THEN AddrOf(as.next[index + 1].value) ELSE NULL

\* C6: json_array_get_item and json_object_get_item return the index-th
\* appended value for every index < length and NULL for every
\* index >= length.
C6_GetItemAbsentOutOfRange ==
    /\ v_op = "array_get" => v_ret = NthValue(v_array.as, v_arg)
    /\ v_op = "object_get" => v_ret = NthValue(v_object.as, v_arg)

MinOf(S) == CHOOSE i \in S : \A j \in S : i <= j

\* positions of the items of the object whose key is exactly `key`
KeyMatches(key) ==
    { i \in DOMAIN v_object.as.next : v_object.as.next[i].key = key }

\* C7: json_object_find_value returns the value of the first item, in
\* append order, whose key equals the given key exactly, and NULL when no
\* item has that key or the object is empty.
C7_FindValueFirstMatch ==
    v_op = "find" =>
        v_ret = IF KeyMatches(v_arg) = {} THEN NULL
                ELSE AddrOf(v_object.as.next[MinOf(KeyMatches(v_arg))].value)

\* a lookup of a key held by two items with different values, neither first
C7_Witness ==
    /\ v_op = "find"
    /\ v_ret # NULL
    /\ 1 \notin KeyMatches(v_arg)
    /\ \E i, j \in KeyMatches(v_arg) :
          /\ i < j
          /\ v_object.as.next[i].value # v_object.as.next[j].value
          /\ v_ret = AddrOf(v_object.as.next[i].value)

\* the rendering of a value, collections built by joining the renderings
\* of their items
RECURSIVE Rendering(_)
Rendering(value) ==
    CASE value.type = JSON_ARRAY ->
            <<"[">>
            \o JoinTexts([i \in DOMAIN value.as.next |->
                             Rendering(value.as.next[i].value)], <<",", " ">>)
            \o <<"]">>
      [] value.type = JSON_OBJECT ->
            <<"{">>
            \o JoinTexts([i \in DOMAIN value.as.next |->
                             Quoted(value.as.next[i].key) \o <<":", " ">>
                             \o Rendering(value.as.next[i].value)], <<",", " ">>)
            \o <<"}">>
      [] value.type = JSON_NUMBER -> FormatNumber(value.as.number)
      [] value.type = JSON_STRING -> Quoted(value.as.string)
      [] value.type = JSON_BOOLEAN ->
            IF ReadBoolean(value.as) THEN TrueWord ELSE FalseWord

\* C8: json_stringify renders an array as '[' + the renderings of its
\* items in list order separated by exactly ', ' + ']' and an object as
\* '{' + the '"key": value' renderings separated by exactly ', ' + '}':
\* n items give n-1 separators, none leading or trailing, recursively.
C8_StringifySeparators ==
    /\ v_op = "array_stringify" => v_ret = Rendering(v_array)
    /\ v_op = "object_stringify" => v_ret = Rendering(v_object)

\* a three-item array holding a nested two-item array was rendered
C8_Witness ==
    /\ v_op = "array_stringify"
    /\ v_array.as.len = 3
    /\ \E i \in 1..3 :
          /\ v_array.as.next[i].value.type = JSON_ARRAY
          /\ v_array.as.next[i].value.as.len = 2
    /\ v_ret[1] = "[" /\ v_ret[Len(v_ret)] = "]"

---------------------------------------------------------------------------
(* Claim about the demonstration program, checked under SpecMain.          *)

\* what json_lexer_parse_value makes of the file once it is in the buffer
MainParsed ==
    LET sb == ali_sb_read_file(EmptySb, m_file.text, m_fill)
    IN  json_lexer_parse_value(json_lexer(sb.data, sb.count), Indeterminate, 0)

TopIsObject ==
    /\ m_file.readable
    /\ MainParsed.status = "true"
    /\ MainParsed.value.type = JSON_OBJECT

\* positions of the top-level items whose key is products
ProductsItems ==
    { i \in DOMAIN MainParsed.value.as.next :
        MainParsed.value.as.next[i].key = ProductsKey }

FirstProducts == MainParsed.value.as.next[MinOf(ProductsItems)].value

\* the five cases in which main is to return 1
Unreadable == ~m_file.readable
ParseFails == m_file.readable /\ MainParsed.status = "false"
TopNotObject ==
    /\ m_file.readable
    /\ MainParsed.status = "true"
    /\ MainParsed.value.type # JSON_OBJECT
ProductsMissing == TopIsObject /\ ProductsItems = {}
ProductsNotArray ==
    TopIsObject /\ ProductsItems # {} /\ FirstProducts.type # JSON_ARRAY

ExitOneCase ==
    Unreadable \/ ParseFails \/ TopNotObject \/ ProductsMissing \/ ProductsNotArray

\* every element rendered in index order, each followed by a newline
RECURSIVE RenderedLines(_)
RenderedLines(nodes) ==
    IF nodes = << >> THEN << >>
    ELSE Rendering(Head(nodes).value) \o <<"\n">> \o RenderedLines(Tail(nodes))

---------------------------------------------------------------------------
(* Claim about the arena, checked under SpecArena.                         *)

\* two blocks share a byte
Overlap(b1, b2) ==
    /\ b1.r = b2.r
    /\ b1.off < b2.off + b2.size
    /\ b2.off < b1.off + b1.size

\* C10: after m = ali_arena_mark(a), any allocations and then
\* ali_arena_rollback(a, m), the marked region's offset equals the offset
\* captured in m, later regions are zeroed and the tail is the marked
\* region; the next allocation does not overlap any block allocated before
\* the mark.
C10_RollbackRestoresMark ==
    /\ a_last = "rollback" =>
          /\ a_regions[a_mark.r].count = a_mark.count
          /\ a_end = a_mark.r
          /\ \A i \in DOMAIN a_regions : i > a_mark.r => a_regions[i].count = 0
    /\ a_last = "realloc" =>
          \A i \in DOMAIN a_premark :
              ~Overlap(a_blocks[Len(a_blocks)], a_premark[i])

---------------------------------------------------------------------------
(* Claim about UTF-8, checked under SpecUtf8.                              *)

\* C11: for every valid codepoint cp, decoding the bytes produced by
\* ali_codepoint_to_utf8(cp) with ali_utf8c_to_codepoint yields cp again
\* and reports a consumed size equal to ali_codepoint_size(cp).
C11_Utf8RoundTrip ==
    (u_pc = "decoded" /\ ali_codepoint_is_valid(u_cp)) =>
        /\ u_dec.codepoint = u_cp
        /\ u_dec.codepoint_size = ali_codepoint_size(u_cp)
        /\ u_dec.codepoint_size \in 1..4

---------------------------------------------------------------------------
(* Claim about the string view, checked under SpecSv.                      *)

\* position of the first occurrence of c in a text, 0 when it does not occur
RECURSIVE FirstIndexOf(_, _)
FirstIndexOf(text, c) ==
    IF text = << >> THEN 0
    ELSE IF Head(text) = c THEN 1
    ELSE LET rest == FirstIndexOf(Tail(text), c)
         IN  IF rest = 0 THEN 0 ELSE rest + 1

\* what one recorded chop returned and what it left in the view
ChopReturned(i) == SvText(s_mem, s_out[i].chopped)
ChopLeft(i) ==
    IF i = Len(s_out) THEN SvText(s_mem, s_self)
    ELSE SvText(s_mem, s_out[i + 1].before)

\* C12: ali_sv_chop_by_c(view, c) returns the characters before the first
\* occurrence of c and leaves the characters behind that occurrence in the
\* view, the separator in neither; when c does not occur it returns the
\* whole remainder and leaves the view empty.  Three chops by ',' on a,b,c
\* return a, b and c.
C12_ChopByChar ==
    \A i \in DOMAIN s_out :
        LET text == SvText(s_mem, s_out[i].before)
            at == FirstIndexOf(text, s_out[i].c)
        IN  /\ ~s_out[i].fault
            /\ ChopReturned(i) =
                  IF at = 0 THEN text ELSE SubSeq(text, 1, at - 1)
            /\ ChopLeft(i) =
                  IF at = 0 THEN << >> ELSE SubSeq(text, at + 1, Len(text))

---------------------------------------------------------------------------
(* Claims about the dynamic array, checked under SpecDa.                   *)

\* the elements of an array, da[0] .. da[count - 1]
DaItems(da) == SubSeq(da.data, 1, da.count)

\* C13: after N appends to an empty handle the stored length is N; the
\* capacity is the initial 8 for every N <= 8 and has grown (doubled) once
\* the 9th element is appended.
C13_CapacityGrowsAtNinth ==
    (d_grown /\ ~d_da.isnull) =>
        /\ ali_da_getlen(d_da) = d_nappend
        /\ d_nappend <= ALI_DA_DEFAULT_INIT_CAPACITY =>
              d_da.capacity = ALI_DA_DEFAULT_INIT_CAPACITY
        /\ d_nappend > ALI_DA_DEFAULT_INIT_CAPACITY =>
              d_da.capacity = 2 * ALI_DA_DEFAULT_INIT_CAPACITY

\* a sequence without its i-th element, i counted from 0
WithoutIndex(seq, i) == SubSeq(seq, 1, i) \o SubSeq(seq, i + 2, Len(seq))

\* the last operation was a removal at an index below the length
RemovedInRange(op) ==
    /\ d_last.op = op
    /\ d_last.before.count >= 1
    /\ d_last.i < d_last.before.count

\* C14: on an array of length n >= 1 and 0 <= i < n, ali_da_remove_unordered(i)
\* leaves length n-1 with position i holding the former last element and
\* every other remaining position unchanged; ali_da_remove_ordered(i) leaves
\* length n-1 with the other elements in their original order.
C14_RemoveKeepsElements ==
    /\ RemovedInRange("remove_unordered") =>
          LET n == d_last.before.count
              old == DaItems(d_last.before)
          IN  /\ d_pc = "run"
              /\ d_da.count = n - 1
              /\ \A k \in 1..(n - 1) :
                    DaItems(d_da)[k] = IF k = d_last.i + 1 THEN old[n] ELSE old[k]
    /\ RemovedInRange("remove_ordered") =>
          /\ d_pc = "run"
          /\ d_da.count = d_last.before.count - 1
          /\ DaItems(d_da) = WithoutIndex(DaItems(d_last.before), d_last.i)

\* an ordered removal from the middle of an array that an unordered removal
\* had put out of append order
C14_Witness ==
    /\ RemovedInRange("remove_ordered")
    /\ d_nremove = 2
    /\ d_last.before.count >= 3
    /\ d_last.i = 1
    /\ d_last.before.data[1] > d_last.before.data[3]
    /\ DaItems(d_da)[2] = d_last.before.data[3]

\* C15: after any sequence of append, reset, remove_unordered and
\* remove_ordered (removals on an empty array included) the stored length
\* is <= the stored capacity, and no operation lowers the capacity.
C15_LengthWithinCapacity ==
    ~d_da.isnull =>
        /\ d_da.count <= d_da.capacity
        /\ ~d_last.before.isnull => d_da.capacity >= d_last.before.capacity

---------------------------------------------------------------------------
(* Claim about the log, checked under SpecLog.                             *)

\* C16: ali_log_log(level, ...) writes one line, "[LEVELNAME] " + message +
\* newline, exactly when level >= ali_global_loglevel, and writes nothing
\* otherwise; with the default minimum INFO every level is written.
C16_LogFiltering ==
    l_last.called =>
        l_sink = IF l_last.level >= l_loglevel
                 THEN Append(l_last.before, LogLine(l_last.level, l_last.msg))
                 ELSE l_last.before

---------------------------------------------------------------------------
(* Claim about the temp allocator, checked under SpecTemp.                 *)

---------------------------------------------------------------------------
(* Claim about the string builder, checked under SpecSb.                   *)

\* the bytes the builder holds
SbText(sb) == SubSeq(sb.data, 1, sb.count)

\* C18: ali_sb_push_sprintf appends the formatted text and returns normally
\* for every format and arguments, those with a non-empty output included:
\* afterwards no assertion has fired, the count has grown by the length of
\* the formatted text and the builder holds the old bytes followed by it.
C18_PushSprintfAppends ==
    b_last.op = "sprintf" =>
        /\ b_pc = "run"
        /\ b_sb.count = b_last.before.count + Len(b_last.text)
        /\ SbText(b_sb) = SbText(b_last.before) \o b_last.text

---------------------------------------------------------------------------
(* Claims checked under SpecArena (continued).                             *)

\* C19: every ali_arena_alloc of a size that fits in one region
\* (size <= ALI_REGION_DEFAULT_CAP, the capacity itself included) terminates
\* after creating finitely many regions and returns a block inside a single
\* region.  The loop leaves a region only when ali_region_alloc refuses the
\* size, and every region it creates is empty, so it terminates exactly when
\* no empty region refuses the size: that is the state property checked,
\* together with the place of the blocks returned.
C19_AllocTerminates ==
    /\ (a_pc = "alloc" /\ a_size <= ALI_REGION_DEFAULT_CAP
            /\ a_regions[a_region].count = 0)
          => ali_region_alloc(a_regions[a_region], a_size).ptr # -1
    /\ \A i \in DOMAIN a_blocks :
          /\ a_blocks[i].r \in DOMAIN a_regions
          /\ a_blocks[i].off + a_blocks[i].size <= a_regions[a_blocks[i].r].capacity

---------------------------------------------------------------------------
(* Claims checked under SpecParse (continued).                             *)

\* C20: after json_lexer_parse_value has successfully parsed a boolean
\* literal the cursor has consumed the characters of the literal: it rests
\* on the first character behind the word (for true followed by ',' on the
\* ','), where the loop of the enclosing array or object looks for the
\* separator.
C20_BooleanConsumed ==
    (Parsed /\ p_input.family = "boolsep" /\ p_result.status = "true") =>
        /\ p_result.lexer.cursor = p_input.expect.after
        /\ Readable(p_result.lexer)
        /\ Cur(p_result.lexer) = p_input.expect.sep


\* C21: the JSON arena is never released: over any sequence of
\* json_lexer_parse_value calls, successful or failed, json_arena_size never
\* ends a call lower than it began it, and the rewind of the boolean branch
\* restores the offset stamped at the start of the scan, so parsing a
\* boolean literal leaves json_arena_size as it was.
C21_ArenaNeverReleased ==
    (Parsed /\ p_result.status # "fault") =>
        /\ p_result.arena >= p_arena0
        /\ (p_input.family \in {"boollit", "boolsep"} /\ p_result.status = "true")
              => p_result.arena = p_arena0

\* a boolean literal was parsed by a later call, the earlier one having
\* left allocations in the arena
C21_Witness ==
    /\ Parsed
    /\ p_ncalls = 2
    /\ p_arena0 > 0
    /\ p_input.family \in {"boollit", "boolsep"}
    /\ p_result.status = "true"
    /\ p_result.arena = p_arena0


\* C22: during a json_lexer_parse_value call on content of length L the
\* cursor never moves beyond content_start + L (so nothing behind the
\* content is read), and content that ends before the delimiter it is
\* waiting for (an unterminated string or key) makes the call return false.
C22_CursorWithinContent ==
    Parsed =>
        /\ p_result.status # "fault"
        /\ p_result.lexer.cursor >= 0
        /\ p_result.lexer.cursor <= p_result.lexer.content_start
                                      + p_result.lexer.content_len
        /\ p_input.family = "cut" => p_result.status = "false"

---------------------------------------------------------------------------
(* Claim about ali_utf8len, checked under SpecLen.                         *)

\* C23: ali_utf8len terminates on every null-terminated byte sequence, also
\* on one that holds a byte that is no valid lead byte (0x80..0xBF or
\* 0xF8..0xFF): every iteration of the loop moves the read position forward
\* by at least one byte, and the position never leaves the sequence.
C23_Utf8LenAdvances ==
    /\ n_prev # -1 => n_utf8 >= n_prev + 1
    /\ n_pc # "fault"

=============================================================================
